---------------------------- MODULE Spec2Model ----------------------------
(***************************************************************************)
(* Model of src/modules/mc_att_control/mc_att_control_main.cpp: the        *)
(* multicopter attitude/rate control task with the full-state-feedback     *)
(* altitude regulator and its scripted mission sequencer.                  *)
(*                                                                         *)
(* One iteration of the loop of MulticopterAttitudeControl::run() that     *)
(* processes a gyro sample is one action (Cycle); an iteration whose poll  *)
(* times out or fails is PollTimeout / PollError.  uORB messages that      *)
(* arrive between two iterations are the inputs of the iteration (a record *)
(* `in`): an `*_upd` flag is what orb_check() reports and the value is     *)
(* what orb_copy() copies.                                                 *)
(*                                                                         *)
(* Numbers.  A C float is an integer in hundredths (1.0 is 100) between    *)
(* -FltMax and FltMax, or one of NaN, PInf, NInf; arithmetic propagates    *)
(* the non-finite values as IEEE-754 does and overflows to an infinity.    *)
(* Signed zero is not modelled.  The clock `now` is in whole seconds; the   *)
(* time since last_run, which gives dt, is in microseconds.                *)
(***************************************************************************)
EXTENDS Integers, Sequences, FiniteSets, TLC

(***************************************************************************)
(* Bounds of the model.                                                    *)
(***************************************************************************)
\* largest finite float magnitude, in hundredths
FltMax == 30000
\* the clock stops the model at this many seconds
MaxTime == 8
\* the same for the environment that flies the whole of mission 1
FlightTime == 56
\* largest clock advance between two loop iterations, in seconds
MaxStep == 2
\* attitude angles (pi) and body rates (100 rad/s) up to which the inputs of
\* the rate controller are called nominal, in hundredths
NominalAngle == 314
NominalRate == 10000

(***************************************************************************)
(* Float model.                                                            *)
(***************************************************************************)
PInf == FltMax + 1
NInf == -(FltMax + 1)
NaN == FltMax + 2

IsFinite(x) == x >= -FltMax /\ x <= FltMax

Norm(v) == IF v > FltMax THEN PInf ELSE IF v < -FltMax THEN NInf ELSE v

Sgn(x) == IF x > 0 THEN 1 ELSE IF x < 0 THEN -1 ELSE 0

\* integer division truncating toward zero, d > 0
TDiv(n, d) == IF n >= 0 THEN n \div d ELSE -((-n) \div d)

FNeg(a) == IF a = NaN THEN NaN ELSE -a

FAdd(a, b) ==
    IF a = NaN \/ b = NaN THEN NaN
    ELSE IF ~IsFinite(a) THEN (IF ~IsFinite(b) /\ b # a THEN NaN ELSE a)
    ELSE IF ~IsFinite(b) THEN b
    ELSE Norm(a + b)

FSub(a, b) == FAdd(a, FNeg(b))

FMul(a, b) ==
    IF a = NaN \/ b = NaN THEN NaN
    ELSE IF ~IsFinite(a) \/ ~IsFinite(b)
         THEN (IF a = 0 \/ b = 0 THEN NaN
               ELSE IF Sgn(a) * Sgn(b) > 0 THEN PInf ELSE NInf)
    ELSE Norm(TDiv(a * b, 100))

\* k * b for a finite gain k given in 1/10000
GainMul(k, b) ==
    IF b = NaN THEN NaN
    ELSE IF ~IsFinite(b)
         THEN (IF k = 0 THEN NaN ELSE IF Sgn(k) * Sgn(b) > 0 THEN PInf ELSE NInf)
    ELSE Norm(TDiv(k * b, 10000))

FDiv(a, b) ==
    IF a = NaN \/ b = NaN THEN NaN
    ELSE IF ~IsFinite(a) THEN (IF ~IsFinite(b) THEN NaN
                               ELSE IF (Sgn(a) > 0) = (b >= 0) THEN PInf ELSE NInf)
    ELSE IF ~IsFinite(b) THEN 0
    ELSE IF b = 0 THEN (IF a = 0 THEN NaN ELSE IF a > 0 THEN PInf ELSE NInf)
    ELSE Norm(Sgn(b) * TDiv(a * 100, Sgn(b) * b))

\* fminf and fmaxf: a NaN argument gives the other argument
FMin(a, b) == IF a = NaN THEN b ELSE IF b = NaN THEN a ELSE IF a < b THEN a ELSE b
FMax(a, b) == IF a = NaN THEN b ELSE IF b = NaN THEN a ELSE IF a > b THEN a ELSE b

FAbs(a) == IF a = NaN THEN NaN ELSE IF a < 0 THEN -a ELSE a
FLt(a, b) == a # NaN /\ b # NaN /\ a < b
FGt(a, b) == FLt(b, a)
FGe(a, b) == a # NaN /\ b # NaN /\ a >= b

Zero3 == <<0, 0, 0>>

(***************************************************************************)
(* Program constants.                                                      *)
(***************************************************************************)
\* mission 1 phase durations ms1_t[0..3], seconds
Mission1Times == <<5, 15, 15, 15>>
\* mission 1 commanded altitudes 1 m, 1.5 m, 2 m
Mission1Heights == <<100, 150, 200>>
\* 0.25f: floor of the commanded altitude while returning
ReturnFloor == 25
\* 0.2f: altitude below which output is suppressed while returning
GroundedAlt == 20
\* 0.05f: lowest throttle PID attenuation factor
TPA_RATE_LOWER_LIMIT == 5
\* 0.0002f and 0.02f: the guards of dt in run(), microseconds
DtMin == 200
DtMax == 20000
\* px4_poll(&poll_fds, 1, 100) and usleep(100000): 100 ms, microseconds
PollWait == 100000
\* (now - task_start) < 3300000: the first seconds of the task, microseconds
RateWindow == 3300000
\* dt_accumulator > 1.f: the time one loop-rate estimate covers, microseconds
RateEvery == 1000000
\* rows 0..3 of ss_k, in 1/10000
ss_k == << <<30000, 0, 0, 0, 40000, 0, 0, 0>>,
           <<0, 14800, -3884, -3751, 0, 5151, -914, -650>>,
           <<0, 1841, 16960, -133, 0, 709, 5454, 140>>,
           <<0, 9353, 6032, 54446, 0, 915, 1529, 21972>> >>
GEAR_UP == 1
GEAR_DOWN == -1

(***************************************************************************)
(* Members that mc_att_control.hpp initialises (the header is not part of  *)
(* the sources at hand): values after construction.                        *)
(***************************************************************************)
\* reference scale of the altitude channel
ss_G_scale_0 == 300
\* ss_m * g
ss_mg == 1500
\* T_max, Mx_max, My_max, Mz_max: pre-seeded, nonzero
T_max == 3000
\* torque maxima that were never seeded
M_max_unseeded == <<0, 0, 0>>
M_max == <<100, 100, 100>>
modern_control_mission_able == TRUE
mission_2_time_still == 2
mission_2_time_height == 2
mission_2_setout_Z == 120
back_Z_aim_0 == 1000
setout_Z_0 == 0
\* _rattitude_thres
rattitude_thres == 80
\* number of gyro instances the task can subscribe to
MAX_GYRO_COUNT == 3
\* _loop_update_rate_hz, Hz
loop_update_rate_hz_0 == 250

ControlMode0 ==
    [flag_armed |-> FALSE, flag_control_rates_enabled |-> FALSE,
     flag_control_attitude_enabled |-> FALSE, flag_control_manual_enabled |-> FALSE,
     flag_control_rattitude_enabled |-> FALSE, flag_control_termination_enabled |-> FALSE,
     flag_control_altitude_enabled |-> FALSE, flag_control_velocity_enabled |-> FALSE,
     flag_control_position_enabled |-> FALSE]

Cyw0(sel) ==
    [cywmc_able |-> TRUE, arm_t0 |-> 0, run_t |-> 0, ss_seted |-> 0,
     need_update_r |-> FALSE, setout_Z |-> setout_Z_0, ss_r |-> <<0, 0, 0, 0>>,
     modern_control_mission_select |-> sel, is_msl_t_set |-> FALSE,
     ms1_t |-> <<0, 0, 0, 0>>, return_back_to_0m_able |-> FALSE,
     start_return_back_runt |-> 0, back_Z_aim |-> back_Z_aim_0,
     give_output_able |-> FALSE, mordern_control_able |-> FALSE,
     ss_u_actual |-> <<0, 0, 0, 0>>, ss_x |-> <<0, 0, 0, 0>>]

VARIABLES
    now,                      \* hrt_absolute_time(), seconds
    v_control_mode,           \* _v_control_mode
    vehicle_status,           \* _vehicle_status: is_vtol, is_rotary_wing
    actuators_id,             \* _actuators_id
    manual_control_sp,        \* _manual_control_sp
    landed,                   \* _vehicle_land_detected.landed
    landing_gear,             \* _landing_gear.landing_gear
    gear_state_initialized,   \* _gear_state_initialized
    battery_scale,            \* _battery_status.scale
    bat_scale_en,             \* _bat_scale_en
    circuit_breaker,          \* _actuators_0_circuit_breaker_enabled
    att_control,              \* _att_control
    thrust_sp,                \* _thrust_sp
    v_att,                    \* Euler angles of _v_att.q
    pos_current,              \* pos_current: z, vz
    cyw,                      \* the members of the state-feedback path
    cfg,                      \* members the code never writes
    emitted,                  \* actuator vectors published by the last iteration
    trace,                    \* what the last iteration executed
    hist,                     \* history: arming, safety timeout, gear switch
    since_run,                \* hrt_absolute_time() - last_run, microseconds
    gyro_count,               \* _gyro_count
    selected_gyro,            \* _selected_gyro
    sensor_correction,        \* _sensor_correction.selected_gyro_instance
    saturation_status,        \* _saturation_status: flags per axis and sign
    rates_int,                \* _rates_int
    rate_int_lim,             \* _rate_int_lim
    tpa,                      \* pid_attenuations: parameters, thrusts, results
    loop_rate,                \* task_start, dt_accumulator, loop_counter, _loop_update_rate_hz
    rates_sp,                 \* _rates_sp
    v_att_sp,                 \* Euler angles of _v_att_sp.q_d
    pc,                       \* where run() is
    exit_requested,           \* should_exit()
    subs,                     \* uORB subscriptions the task holds open
    scn                       \* environment the inputs are drawn from

vars == <<now, v_control_mode, vehicle_status, actuators_id, manual_control_sp,
          landed, landing_gear, gear_state_initialized, battery_scale,
          bat_scale_en, circuit_breaker, att_control, thrust_sp, v_att,
          pos_current, cyw, cfg, emitted, trace, hist, since_run, gyro_count,
          selected_gyro, sensor_correction, saturation_status, rates_int,
          rate_int_lim, tpa, loop_rate, rates_sp, v_att_sp, pc, exit_requested,
          subs, scn>>

(***************************************************************************)
(* control_attitude_rates: the state-feedback path, step by step.          *)
(***************************************************************************)
\* Init running Time
InitRunningTime(c, cm, t) ==
    IF cm.flag_armed /\ cm.flag_control_rates_enabled
    THEN LET a0 == IF c.arm_t0 < 1 THEN t ELSE c.arm_t0
         IN  [c EXCEPT !.arm_t0 = a0, !.run_t = t - a0]
    ELSE [c EXCEPT !.arm_t0 = 0, !.run_t = 0]

\* ss_r(0,0) = setout_Z; ss_r = ss_G_scale * ss_r, ss_G_scale = diag(G0, 0, 0, 0)
ScaledReference(r, z) ==
    <<FMul(ss_G_scale_0, z), FMul(0, r[2]), FMul(0, r[3]), FMul(0, r[4])>>

\* Init for default parameters in SS
SSInit(c) ==
    IF c.ss_seted = 0
    THEN [c EXCEPT !.ss_r = ScaledReference(<<0, 0, 0, 0>>, c.setout_Z), !.ss_seted = 1]
    ELSE c

\* a reference that is never recomputed
UpdateRSkipped(c) == c

\* Update r if needed in every loop
UpdateR(c) ==
    IF c.need_update_r
    THEN [c EXCEPT !.ss_r = ScaledReference(c.ss_r, c.setout_Z), !.need_update_r = FALSE]
    ELSE c

\* the branch of "Mission Content" that run_t selects, mission 1
Mission1Branch(run_t, T) ==
    IF run_t < T[1] THEN "still"
    ELSE IF run_t > T[1] /\ run_t < T[1] + T[2] THEN "h1"
    ELSE IF run_t > T[1] /\ run_t < T[1] + T[2] + T[3] THEN "h2"
    ELSE IF run_t > T[1] /\ run_t < T[1] + T[2] + T[3] + T[4] THEN "h3"
    ELSE "return"

\* the branch of "Mission Content" that run_t selects, mission 2
Mission2Branch(run_t, T) ==
    IF run_t < T[1] THEN "still"
    ELSE IF run_t > T[1] /\ run_t < T[1] + T[2] THEN "h1"
    ELSE "return"

\* Mission Content whose stand-still branch leaves the output enabled and the
\* commands as they are
MissionContentStillOutputs(f, b, heights) ==
    CASE b = "still" -> f
      [] b = "return" ->
           [f EXCEPT !.c.return_back_to_0m_able = TRUE,
                     !.c.modern_control_mission_select = 0,
                     !.c.start_return_back_runt = f.c.run_t]
      [] OTHER ->
           [f EXCEPT !.c.need_update_r = TRUE,
                     !.c.setout_Z = heights[IF b = "h1" THEN 1 ELSE IF b = "h2" THEN 2 ELSE 3]]

\* Mission Content whose last branch leaves the mission selected
MissionContentReruns(f, b, heights) ==
    CASE b = "still" ->
           [f EXCEPT !.c.give_output_able = FALSE, !.ac = Zero3, !.th = 0]
      [] b = "return" ->
           [f EXCEPT !.c.return_back_to_0m_able = TRUE,
                     !.c.start_return_back_runt = f.c.run_t]
      [] OTHER ->
           [f EXCEPT !.c.need_update_r = TRUE,
                     !.c.setout_Z = heights[IF b = "h1" THEN 1 ELSE IF b = "h2" THEN 2 ELSE 3]]

\* the effect of one branch on the frame f = [c, ac, th]
MissionContent(f, b, heights) ==
    CASE b = "still" ->
           [f EXCEPT !.c.give_output_able = FALSE, !.ac = Zero3, !.th = 0]
      [] b = "return" ->
           [f EXCEPT !.c.return_back_to_0m_able = TRUE,
                     !.c.modern_control_mission_select = 0,
                     !.c.start_return_back_runt = f.c.run_t]
      [] OTHER ->
           [f EXCEPT !.c.need_update_r = TRUE,
                     !.c.setout_Z = heights[IF b = "h1" THEN 1 ELSE IF b = "h2" THEN 2 ELSE 3]]

Mission1(f) ==
    IF f.c.modern_control_mission_select = 1
    THEN LET T == IF f.c.is_msl_t_set THEN f.c.ms1_t ELSE Mission1Times
             g == [f EXCEPT !.c.ms1_t = T, !.c.is_msl_t_set = TRUE]
         IN  MissionContent(g, Mission1Branch(g.c.run_t, T), Mission1Heights)
    ELSE f

Mission2(f) ==
    IF f.c.modern_control_mission_select = 2
    THEN LET T == IF f.c.is_msl_t_set THEN f.c.ms1_t
                  ELSE [f.c.ms1_t EXCEPT ![1] = mission_2_time_still,
                                         ![2] = mission_2_time_height]
             g == [f EXCEPT !.c.ms1_t = T, !.c.is_msl_t_set = TRUE]
         IN  MissionContent(g, Mission2Branch(g.c.run_t, T), <<mission_2_setout_Z>>)
    ELSE f

\* Mission
Mission(f) ==
    IF modern_control_mission_able
    THEN Mission2(Mission1([f EXCEPT !.c.mordern_control_able = TRUE,
                                     !.c.give_output_able = TRUE]))
    ELSE [f EXCEPT !.c.give_output_able = FALSE]

\* the label of the branch Mission executes on frame f ("none": no mission content)
MissionPhase(f) ==
    IF ~modern_control_mission_able THEN "none"
    ELSE IF f.c.modern_control_mission_select = 1
         THEN Mission1Branch(f.c.run_t, IF f.c.is_msl_t_set THEN f.c.ms1_t ELSE Mission1Times)
    ELSE IF f.c.modern_control_mission_select = 2
         THEN Mission2Branch(f.c.run_t,
                  IF f.c.is_msl_t_set THEN f.c.ms1_t
                  ELSE <<mission_2_time_still, mission_2_time_height, 0, 0>>)
    ELSE "none"

\* a safety timeout that leaves cywmc_able set
SafetyReturnForgets(c, k) == c

\* if(run_t>safety_return_time) cywmc_able=0
SafetyReturn(c, k) ==
    IF c.run_t > k.safety_return_time THEN [c EXCEPT !.cywmc_able = FALSE] ELSE c

\* a decay step that multiplies the return-aim by the rate
ReturnDecayGeometric(c, Z, rate) ==
    IF FLt(FNeg(Z), FDiv(c.back_Z_aim, rate)) /\ FGe(c.setout_Z, ReturnFloor)
    THEN [c EXCEPT !.back_Z_aim = FMul(c.back_Z_aim, rate),
                   !.setout_Z = FMul(c.setout_Z, rate)]
    ELSE c

\* the decay step of "Return Back To 0m"
ReturnDecay(c, Z, rate) ==
    IF FLt(FNeg(Z), FDiv(c.back_Z_aim, rate)) /\ FGe(c.setout_Z, ReturnFloor)
    THEN [c EXCEPT !.back_Z_aim = FMul(FNeg(Z), rate),
                   !.setout_Z = FMul(c.setout_Z, rate)]
    ELSE c

\* "end return" that leaves a commanded altitude below the floor as it is
ReturnSnapKeeps(c) == c

\* "end return": snap the commanded altitude to 0 below the floor
ReturnSnap(c) ==
    IF FLt(c.setout_Z, ReturnFloor)
    THEN [c EXCEPT !.setout_Z = 0, !.need_update_r = TRUE]
    ELSE c

\* stand still near the ground
ReturnGrounded(c, Z) ==
    IF FLt(FNeg(Z), GroundedAlt) THEN [c EXCEPT !.give_output_able = FALSE] ELSE c

\* Return Back To 0m
ReturnBack(c, Z, k) ==
    IF c.return_back_to_0m_able
    THEN ReturnGrounded(
             ReturnSnap(ReturnDecay([c EXCEPT !.need_update_r = TRUE], Z,
                                    k.return_degress_rate)), Z)
    ELSE c

\* row i of ss_k times x
KRow(i, x) ==
    LET term(j) == GainMul(ss_k[i][j], x[j])
    IN  FAdd(FAdd(FAdd(term(1), term(2)), FAdd(term(3), term(4))),
             FAdd(FAdd(term(5), term(6)), FAdd(term(7), term(8))))

\* ss_x from the measurements
StateVector(pos, att, rates) ==
    <<FNeg(pos.z), att[1], att[2], att[3], FNeg(pos.vz), rates[1], rates[2], rates[3]>>

\* ss_r - ss_k * ss_x
Demand(r, x) ==
    <<FSub(r[1], KRow(1, x)), FSub(r[2], KRow(2, x)),
      FSub(r[3], KRow(3, x)), FSub(r[4], KRow(4, x))>>

\* ss_x = ss_x + ss_x_dot * dt, rows 0..3 (altitude and angles): ss_B has no
\* entry in these rows and ss_A couples row i to row i + 4.  Rows 4..7 take
\* the mass and inertias of the header; like rows 0..3 they are written by
\* the next call before anything reads them.
EulerStep(x, dt) ==
    LET inc(v) == IF IsFinite(v) THEN TDiv(v * dt, 1000000) ELSE v
    IN  <<FAdd(x[1], inc(x[5])), FAdd(x[2], inc(x[6])),
          FAdd(x[3], inc(x[7])), FAdd(x[4], inc(x[8]))>>

\* a feedback that keeps the integrated altitude and angles as its state
MainFeedbackCarried(c, x, dt) ==
    IF c.mordern_control_able
    THEN LET xs == <<c.ss_x[1], c.ss_x[2], c.ss_x[3], c.ss_x[4], x[5], x[6], x[7], x[8]>>
         IN  [c EXCEPT !.ss_u_actual = Demand(c.ss_r, xs), !.ss_x = EulerStep(xs, dt)]
    ELSE c

\* Main feedback control: ss_x is rebuilt from the measurements x, then
\* ss_u_actual = ss_r - ss_k * ss_x, then the forward-Euler step
MainFeedback(c, x, dt) ==
    IF c.mordern_control_able
    THEN [c EXCEPT !.ss_u_actual = Demand(c.ss_r, x), !.ss_x = EulerStep(x, dt)]
    ELSE c

\* ss_u_scale
ScaledDemand(u) ==
    <<FDiv(FAdd(u[1], ss_mg), T_max),
      FDiv(u[2], M_max[1]), FDiv(u[3], M_max[2]), FDiv(u[4], M_max[3])>>

\* Give Output
GiveOutput(f, k) ==
    IF f.c.give_output_able
    THEN LET us == ScaledDemand(f.c.ss_u_actual)
         IN  [f EXCEPT !.ac = IF k.cywmc_angle_control THEN <<us[2], us[3], us[4]>> ELSE f.ac,
                       !.th = us[1]]
    ELSE [f EXCEPT !.ac = IF k.cywmc_angle_control THEN Zero3 ELSE f.ac,
                   !.th = 0]

\* the frame before the mission step
BeforeMission(f, cm, t) ==
    [f EXCEPT !.c = UpdateR(SSInit(InitRunningTime(f.c, cm, t)))]

\* pos_sub_fd: the handle orb_subscribe(ORB_ID(vehicle_local_position))
\* returns when fds are the subscriptions open
PositionHandle(fds) ==
    <<"vehicle_local_position",
      Cardinality({s \in fds : s[1] = "vehicle_local_position"})>>

\* an end of the block that closes the handle only while cywmc_able is set
UnsubscribePositionWhileAble(f, fd) ==
    IF f.c.cywmc_able THEN [f EXCEPT !.fds = @ \ {fd}] ELSE f

\* End of CYW_MC: orb_unsubscribe(pos_sub_fd)
UnsubscribePosition(f, fd) == [f EXCEPT !.fds = @ \ {fd}]

\* control_attitude_rates on the frame f = [c, ac, th, fds]: cm is
\* _v_control_mode, t the clock, pos the position sample, att and rates the
\* attitude and body rates, dt the clamped time step; fds are the uORB
\* subscriptions open
ControlAttitudeRates(f, cm, t, pos, att, rates, k, dt) ==
    IF f.c.cywmc_able
    THEN LET fd == PositionHandle(f.fds)
             f1 == Mission(BeforeMission([f EXCEPT !.fds = @ \cup {fd}], cm, t))
             c2 == ReturnBack(SafetyReturn(f1.c, k), pos.z, k)
             c3 == MainFeedback(c2, StateVector(pos, att, rates), dt)
         IN  UnsubscribePosition(GiveOutput([f1 EXCEPT !.c = c3], k), fd)
    ELSE f

(***************************************************************************)
(* Output and landing gear.                                                *)
(***************************************************************************)
\* a channel scaled whatever the compensation switch says
ChannelScaledAlways(v, en, scale) ==
    LET c == IF IsFinite(v) THEN v ELSE 0
    IN  IF FGt(scale, 0) THEN FMul(c, scale) ELSE c

\* one primary channel of publish_actuator_controls
Channel(v, en, scale) ==
    LET c == IF IsFinite(v) THEN v ELSE 0
    IN  IF en /\ FGt(scale, 0) THEN FMul(c, scale) ELSE c

\* a publisher that ignores the circuit breaker
PublishGateOpen(cb) == TRUE

\* whether publish_actuator_controls hands the vector to orb_publish_auto
PublishGate(cb) == ~cb

\* publish_actuator_controls: the vectors it publishes (none or one)
PublishActuatorControls(ac, th, lg, en, scale, cb, id, path) ==
    IF PublishGate(cb)
    THEN << [path |-> path, computed |-> <<ac[1], ac[2], ac[3], th>>,
             control |-> <<Channel(ac[1], en, scale), Channel(ac[2], en, scale),
                           Channel(ac[3], en, scale), Channel(th, en, scale)>>,
             gear |-> lg, scale |-> scale, topic |-> id] >>
    ELSE << >>

\* parameter values read before parameter_update_poll has run
ParamsReloadedEarly(held, arrived) == arrived

\* the parameter values the termination branch of run() reads: those the
\* iteration started with, whatever parameter update is waiting, because
\* parameter_update_poll is the last statement of the iteration
ParamsAtTermination(held, arrived) == held

\* a gear that follows the switch of a flying vehicle
GearFollowsSwitch(is_landed, sw, init) ==
    LET i1 == IF is_landed THEN FALSE ELSE init
    IN  IF sw = "ON" /\ ~is_landed THEN [gear |-> GEAR_UP, init |-> i1]
        ELSE IF sw = "OFF" THEN [gear |-> GEAR_DOWN, init |-> TRUE]
        ELSE [gear |-> GEAR_DOWN, init |-> i1]

\* get_landing_gear_state: the value returned and _gear_state_initialized after
GetLandingGearState(is_landed, sw, init) ==
    LET i1 == IF is_landed THEN FALSE ELSE init
    IN  IF sw = "ON" /\ i1 THEN [gear |-> GEAR_UP, init |-> i1]
        ELSE IF sw = "OFF" THEN [gear |-> GEAR_DOWN, init |-> TRUE]
        ELSE [gear |-> GEAR_DOWN, init |-> i1]

\* vehicle_status_poll: _actuators_id after a status update
ActuatorsId(id, st) ==
    IF id = "unset"
    THEN (IF st.is_vtol THEN "actuator_controls_virtual_mc" ELSE "actuator_controls_0")
    ELSE id

\* rattitude: attitude control follows the stick deflection
Rattitude(cm, man) ==
    IF cm.flag_control_rattitude_enabled
    THEN [cm EXCEPT !.flag_control_attitude_enabled =
              (man.y <= rattitude_thres /\ -man.y <= rattitude_thres
               /\ man.x <= rattitude_thres /\ -man.x <= rattitude_thres)]
    ELSE cm

\* whether run() calls generate_attitude_setpoint in this iteration
GeneratesSetpoint(cm, st, att_upd) ==
    /\ cm.flag_control_attitude_enabled /\ st.is_rotary_wing
    /\ att_upd
    /\ cm.flag_control_manual_enabled
    /\ ~cm.flag_control_altitude_enabled
    /\ ~cm.flag_control_velocity_enabled
    /\ ~cm.flag_control_position_enabled

\* _thrust_sp after the branch "attitude controller disabled" of run()
ClassicalThrust(th, cm, st, in, man) ==
    IF cm.flag_control_attitude_enabled /\ st.is_rotary_wing THEN th
    ELSE IF cm.flag_control_manual_enabled /\ st.is_rotary_wing
         THEN (IF in.man_upd THEN man.z ELSE th)
    ELSE IF in.rsp_upd THEN FNeg(in.rsp_thrust_body2) ELSE th

\* manual rates control - ACRO mode: man_rate_sp.emult(_acro_rate_max), with
\* no expo and maximum rates of 1 rad/s; the yaw stick is at rest
AcroRatesSp(man) == <<man.y, FNeg(man.x), 0>>

\* _rates_sp after the branch "attitude controller disabled" of run()
ClassicalRatesSp(rs, cm, st, in, man) ==
    IF cm.flag_control_attitude_enabled /\ st.is_rotary_wing THEN rs
    ELSE IF cm.flag_control_manual_enabled /\ st.is_rotary_wing
         THEN (IF in.man_upd THEN AcroRatesSp(man) ELSE rs)
    ELSE IF in.rsp_upd THEN in.rsp_rates ELSE rs

\* an attitude controller that does not wait for a new attitude estimate
RunsAttitudeControllerStale(cm, st, att_upd) ==
    cm.flag_control_attitude_enabled /\ st.is_rotary_wing

\* whether run() calls control_attitude in this iteration
RunsAttitudeController(cm, st, att_upd) ==
    cm.flag_control_attitude_enabled /\ st.is_rotary_wing /\ att_upd

\* control_attitude: _rates_sp after the call, for the attitude q and the
\* setpoint qd.  The quaternion law and the feed-forward (lines 543-614) are
\* commented out: the call polls the attitude setpoint and stores nothing.
ControlAttitude(rs, q, qd) == rs

\* whether that branch stores a thrust: the acro stick at line 1456 or the
\* external rate setpoint at line 1466
WritesClassicalThrust(cm, st, in) ==
    /\ ~(cm.flag_control_attitude_enabled /\ st.is_rotary_wing)
    /\ IF cm.flag_control_manual_enabled /\ st.is_rotary_wing THEN in.man_upd
       ELSE in.rsp_upd

\* _rates_int.zero() of the constructor
RatesInt0 == Zero3

\* no axis saturated
NoSaturation == [pos |-> <<FALSE, FALSE, FALSE>>, neg |-> <<FALSE, FALSE, FALSE>>]

\* control_attitude_rates: reset integral if disarmed
ResetIntegrator(ri, cm, st) ==
    IF ~cm.flag_armed \/ ~st.is_rotary_wing THEN Zero3 ELSE ri

\* an integration step that adds to every axis whatever the vehicle does
IntegrateUnconditionally(ri, sat, lim, cm) == [i \in 1..3 |-> FAdd(ri[i], 1)]

\* an integration step of an armed vehicle that ignores the saturation flags
IntegrateIgnoringSaturation(ri, sat, lim, cm) ==
    [i \in 1..3 |-> IF cm.flag_armed /\ FLt(FAdd(ri[i], 1), lim[i])
                    THEN FAdd(ri[i], 1) ELSE ri[i]]

\* an integration step of an armed vehicle that respects the saturation flags
\* and no limit
IntegrateWithoutLimit(ri, sat, lim, cm) ==
    [i \in 1..3 |-> IF cm.flag_armed /\ ~sat.pos[i] THEN FAdd(ri[i], 20) ELSE ri[i]]

\* control_attitude_rates: the integration step.  The update of the integral
\* and its limit (lines 701-742) are commented out, so the step stores nothing.
IntegrateRates(ri, sat, lim, cm) == ri

\* a gyro selection that takes every reported instance
SelectGyroUnchecked(sel, instance, count) == instance

\* _gyro_count of run() for n advertised gyro instances
GyroCount(n) ==
    LET m == IF n < MAX_GYRO_COUNT THEN n ELSE MAX_GYRO_COUNT
    IN  IF m = 0 THEN 1 ELSE m

\* _selected_gyro after sensor_correction_poll: update the latest gyro selection
SelectGyro(sel, instance, count) == IF instance < count THEN instance ELSE sel

\* dt of run() from the microseconds since last_run, without the upper guard
ClampDtLowOnly(elapsed) == IF elapsed < DtMin THEN DtMin ELSE elapsed

\* dt of run(): guard against too small (< 0.2ms) and too large (> 20ms) dt's
ClampDt(elapsed) ==
    IF elapsed < DtMin THEN DtMin
    ELSE IF elapsed > DtMax THEN DtMax
    ELSE elapsed

\* the time since last_run after another wait of w microseconds; beyond
\* PollWait every value gives the same dt, so the model stops counting there
Elapse(since, w) == IF since + w > PollWait THEN PollWait ELSE since + w

\* the locals of run() and the member of the loop-rate estimate when run()
\* enters its loop at time t; retuned tells whether the last iteration handed
\* a new rate to _lp_filters_d.set_cutoff_frequency
LoopRate0(t) ==
    [task_start |-> t, dt_accumulator |-> 0, loop_counter |-> 0,
     loop_update_rate_hz |-> loop_update_rate_hz_0, retuned |-> FALSE]

\* an estimator that runs in every iteration
RateGateOpen(armed, since_start) == TRUE

\* calculate loop update rate while disarmed or at least a few times
RateGate(armed, since_start) == ~armed \/ since_start < RateWindow

\* the loop-rate estimate after an iteration with time step dt, microseconds
EstimateLoopRate(est, armed, since_start, dt) ==
    IF RateGate(armed, since_start)
    THEN LET acc == est.dt_accumulator + dt
             cnt == est.loop_counter + 1
         IN  IF acc > RateEvery
             THEN [est EXCEPT !.dt_accumulator = 0, !.loop_counter = 0,
                              !.loop_update_rate_hz = (@ + (cnt * 1000000) \div acc) \div 2,
                              !.retuned = TRUE]
             ELSE [est EXCEPT !.dt_accumulator = acc, !.loop_counter = cnt,
                              !.retuned = FALSE]
    ELSE [est EXCEPT !.retuned = FALSE]

\* the measurements control_attitude_rates reads, by magnitude: "nominal" when
\* all are finite, the angles within NominalAngle and the rates within
\* NominalRate; "finite" when all are finite; "any" otherwise
InputClass(pos, att, rates) ==
    IF \E v \in {pos.z, pos.vz, att[1], att[2], att[3], rates[1], rates[2], rates[3]} :
           ~IsFinite(v)
    THEN "any"
    ELSE IF /\ \A i \in 1..3 : FAbs(att[i]) <= NominalAngle
            /\ \A i \in 1..3 : FAbs(rates[i]) <= NominalRate
         THEN "nominal"
    ELSE "finite"

\* whether run() takes the flight-termination branch
Terminates(cm, st) == cm.flag_control_termination_enabled /\ ~st.is_vtol

(***************************************************************************)
(* One iteration of the loop of run() that processes a gyro sample.        *)
(***************************************************************************)
\* the trace of an iteration that did not process a gyro sample
NoTrace ==
    [ran |-> FALSE, block |-> FALSE, armed |-> FALSE, phase |-> "none", mission |-> 0,
     returning |-> FALSE, prev_Z |-> 0, term |-> FALSE, gear_called |-> FALSE,
     gear_out |-> GEAR_DOWN, cb |-> FALSE, first_eval |-> FALSE, after_timeout |-> FALSE,
     gyro |-> FALSE, elapsed |-> 0, dt |-> 0, classical_out |-> FALSE,
     reset_case |-> FALSE, sat |-> NoSaturation, int_before |-> Zero3,
     int_after |-> Zero3, inputs |-> "nominal", att_new |-> FALSE,
     att_ctrl |-> FALSE, asp_polled |-> FALSE, sp_before |-> Zero3,
     x_meas |-> <<0, 0, 0, 0, 0, 0, 0, 0>>]

\* where the clock stops the model
Horizon ==
    CASE scn = "flight" -> FlightTime
      [] scn \in {"rearm", "return"} -> MaxTime
      [] OTHER -> MaxTime - 3

Cycle(in) ==
    LET t     == now + in.adv
        \* now - last_run, and the dt run() makes of it
        elapsed == Elapse(since_run, in.adv * 1000000 + in.us)
        dt    == ClampDt(elapsed)
        ran   == v_control_mode.flag_control_rates_enabled
        block == ran /\ cyw.cywmc_able
        f0    == [c |-> cyw, ac |-> att_control, th |-> thrust_sp, fds |-> subs]
        pos1  == IF block /\ in.pos_upd THEN in.pos ELSE pos_current
        \* check for updates in other topics
        cm1   == IF in.cm_upd THEN in.cm ELSE v_control_mode
        st1   == IF in.st_upd THEN in.st ELSE vehicle_status
        id1   == IF in.st_upd THEN ActuatorsId(actuators_id, in.st) ELSE actuators_id
        bat1  == IF in.bat_upd THEN in.scale ELSE battery_scale
        land1 == IF in.land_upd THEN in.landed ELSE landed
        lg1   == IF in.lg_upd THEN in.lg ELSE landing_gear
        man1  == IF in.man_upd THEN in.man ELSE manual_control_sp
        att1  == IF in.att_upd THEN in.att ELSE v_att
        sc1   == IF in.sc_upd THEN in.sc_instance ELSE sensor_correction
        \* the integral in control_attitude_rates: after the reset, after the step
        ri0   == ResetIntegrator(rates_int, v_control_mode, vehicle_status)
        ri1   == IntegrateRates(ri0, saturation_status, rate_int_lim, v_control_mode)
        \* the first evaluation of the sequencer after an arming the poll has seen
        eval_armed == block /\ v_control_mode.flag_armed
    IN  \E f1 \in {IF ran
                   \* run the rate controller immediately after a gyro update
                   THEN ControlAttitudeRates(f0, v_control_mode, t, pos1, v_att, in.rates,
                                             cfg, dt)
                   ELSE f0},
           cm2 \in {Rattitude(cm1, man1)},
           gs \in {GetLandingGearState(land1, man1.gear_switch, gear_state_initialized)} :
        LET pub1 == IF ran
                    THEN PublishActuatorControls(f1.ac, f1.th, landing_gear, bat_scale_en,
                             battery_scale, circuit_breaker, actuators_id, "rates")
                    ELSE << >>
            gen  == GeneratesSetpoint(cm2, st1, in.att_upd)
            lg2  == IF gen THEN gs.gear ELSE lg1
            th2  == ClassicalThrust(f1.th, cm2, st1, in, man1)
            actl == RunsAttitudeController(cm2, st1, in.att_upd)
            \* vehicle_attitude_setpoint_poll, called by control_attitude only
            asp1 == IF actl /\ in.asp_upd THEN in.asp ELSE v_att_sp
            rs2  == IF actl THEN ControlAttitude(rates_sp, att1, asp1)
                    ELSE ClassicalRatesSp(rates_sp, cm2, st1, in, man1)
            term == Terminates(cm2, st1)
            par2 == ParamsAtTermination(
                        [cbrk |-> circuit_breaker, bat_scale_en |-> bat_scale_en],
                        IF in.par_upd THEN in.par
                        ELSE [cbrk |-> circuit_breaker, bat_scale_en |-> bat_scale_en])
            pub2 == IF term
                    THEN PublishActuatorControls(Zero3, 0, lg2, par2.bat_scale_en, bat1,
                             par2.cbrk, id1, "termination")
                    ELSE << >>
            armed_now == cm2.flag_armed /\ ~v_control_mode.flag_armed
        IN  /\ t <= Horizon
            /\ now' = t
            /\ v_control_mode' = cm2
            /\ vehicle_status' = st1
            /\ actuators_id' = id1
            /\ manual_control_sp' = man1
            /\ landed' = land1
            /\ landing_gear' = lg2
            /\ gear_state_initialized' = (IF gen THEN gs.init ELSE gear_state_initialized)
            /\ battery_scale' = bat1
            /\ v_att' = att1
            /\ pos_current' = pos1
            /\ cyw' = f1.c
            /\ subs' = f1.fds
            /\ att_control' = (IF term THEN Zero3 ELSE f1.ac)
            /\ thrust_sp' = (IF term THEN 0 ELSE th2)
            /\ rates_sp' = (IF term THEN Zero3 ELSE rs2)
            /\ v_att_sp' = asp1
            /\ emitted' = pub1 \o pub2
            \* parameter_update_poll
            /\ circuit_breaker' = (IF in.par_upd THEN in.par.cbrk ELSE circuit_breaker)
            /\ bat_scale_en' = (IF in.par_upd THEN in.par.bat_scale_en ELSE bat_scale_en)
            /\ rate_int_lim' = (IF in.par_upd THEN in.par.int_lim ELSE rate_int_lim)
            /\ trace' = [ran |-> ran, block |-> block,
                         armed |-> ran /\ v_control_mode.flag_armed,
                         phase |-> IF block
                                   THEN MissionPhase(BeforeMission(f0, v_control_mode, t))
                                   ELSE "none",
                         mission |-> IF block THEN cyw.modern_control_mission_select ELSE 0,
                         returning |-> block /\ f1.c.return_back_to_0m_able,
                         prev_Z |-> IF block /\ f1.c.return_back_to_0m_able
                                    THEN cyw.setout_Z ELSE 0,
                         term |-> term,
                         gear_called |-> gen,
                         gear_out |-> IF gen THEN gs.gear ELSE GEAR_DOWN,
                         cb |-> circuit_breaker,
                         first_eval |-> eval_armed /\ hist.arm_pending,
                         after_timeout |-> hist.timed_out,
                         gyro |-> TRUE, elapsed |-> elapsed, dt |-> dt,
                         classical_out |-> ran /\ ~block /\ hist.classical,
                         reset_case |-> ran /\ (~v_control_mode.flag_armed
                                                \/ ~vehicle_status.is_rotary_wing),
                         sat |-> IF ran THEN saturation_status ELSE NoSaturation,
                         int_before |-> IF ran THEN ri0 ELSE Zero3,
                         int_after |-> IF ran THEN ri1 ELSE Zero3,
                         inputs |-> IF block THEN InputClass(pos1, v_att, in.rates)
                                    ELSE "nominal",
                         att_new |-> in.att_upd,
                         att_ctrl |-> actl,
                         asp_polled |-> actl,
                         sp_before |-> IF actl THEN rates_sp ELSE Zero3,
                         \* the measurements the feedback path was given
                         x_meas |-> IF block THEN StateVector(pos1, v_att, in.rates)
                                    ELSE NoTrace.x_meas]
            \* last_run = now
            /\ since_run' = 0
            /\ sensor_correction' = sc1
            /\ selected_gyro' = SelectGyro(selected_gyro, sc1, gyro_count)
            /\ saturation_status' = (IF in.ml_upd THEN in.ml ELSE saturation_status)
            /\ rates_int' = (IF term THEN Zero3 ELSE IF ran THEN ri1 ELSE rates_int)
            /\ hist' = [arm_pending |-> armed_now \/ (hist.arm_pending /\ cm2.flag_armed
                                                       /\ ~eval_armed),
                        rearmed |-> cm2.flag_armed /\ (armed_now \/ hist.rearmed)
                                    /\ hist.timed_out,
                        timed_out |-> hist.timed_out
                                      \/ (block /\ f1.c.run_t > cfg.safety_return_time),
                        held_on |-> /\ cm2.flag_armed
                                    /\ man1.gear_switch = "ON"
                                    /\ IF v_control_mode.flag_armed THEN hist.held_on
                                       ELSE manual_control_sp.gear_switch = "ON" /\ land1,
                        \* _thrust_sp holds what a classical path stored
                        classical |-> /\ ~term
                                      /\ \/ WritesClassicalThrust(cm2, st1, in)
                                         \/ (~block /\ hist.classical),
                        \* a call of get_landing_gear_state saw the switch OFF
                        \* at or after (after) the last call with the vehicle
                        \* land-detected
                        off_since_land |->
                            IF ~gen THEN hist.off_since_land
                            ELSE IF land1 THEN man1.gear_switch = "OFF"
                            ELSE hist.off_since_land \/ man1.gear_switch = "OFF",
                        off_after_land |->
                            IF ~gen THEN hist.off_after_land
                            ELSE IF land1 THEN FALSE
                            ELSE hist.off_after_land \/ man1.gear_switch = "OFF"]
            \* the loop-rate estimate reads dt and writes its own three variables;
            \* the environments that count the clock in seconds leave it aside
            /\ loop_rate' = (IF scn = "rate"
                             THEN EstimateLoopRate(loop_rate, cm2.flag_armed,
                                      (t - loop_rate.task_start) * 1000000, dt)
                             ELSE loop_rate)
            /\ UNCHANGED <<cfg, gyro_count, tpa, scn>>

\* an iteration whose px4_poll timed out (pret == 0): continue.  The 100 ms
\* it waited are part of the clock advance of the next iteration that
\* processes a sample.
PollTimeout ==
    /\ emitted' = << >>
    /\ trace' = NoTrace
    /\ since_run' = Elapse(since_run, PollWait)
    /\ UNCHANGED <<now, v_control_mode, vehicle_status, actuators_id, manual_control_sp,
                   landed, landing_gear, gear_state_initialized, battery_scale,
                   bat_scale_en, circuit_breaker, att_control, thrust_sp, v_att,
                   pos_current, cyw, cfg, hist, gyro_count, selected_gyro,
                   sensor_correction, saturation_status, rates_int, rate_int_lim,
                   tpa, loop_rate, rates_sp, v_att_sp, scn>>

\* an iteration whose px4_poll failed (pret < 0): usleep(100000); continue
PollError ==
    /\ emitted' = << >>
    /\ trace' = NoTrace
    /\ since_run' = Elapse(since_run, PollWait)
    /\ UNCHANGED <<now, v_control_mode, vehicle_status, actuators_id, manual_control_sp,
                   landed, landing_gear, gear_state_initialized, battery_scale,
                   bat_scale_en, circuit_breaker, att_control, thrust_sp, v_att,
                   pos_current, cyw, cfg, hist, gyro_count, selected_gyro,
                   sensor_correction, saturation_status, rates_int, rate_int_lim,
                   tpa, loop_rate, rates_sp, v_att_sp, scn>>

(***************************************************************************)
(* pid_attenuations: throttle PID attenuation.                             *)
(***************************************************************************)
\* the line of the signed thrust, without fabsf
TpaLineSigned(tpa_breakpoint, tpa_rate, th) ==
    FSub(100, FDiv(FMul(tpa_rate, FSub(th, tpa_breakpoint)),
                   FSub(100, tpa_breakpoint)))

\* 1.0f - tpa_rate * (fabsf(_thrust_sp) - tpa_breakpoint) / (1.0f - tpa_breakpoint)
TpaLine(tpa_breakpoint, tpa_rate, th) ==
    FSub(100, FDiv(FMul(tpa_rate, FSub(FAbs(th), tpa_breakpoint)),
                   FSub(100, tpa_breakpoint)))

\* a factor that is not limited
TpaUnlimited(f) == f

\* fmaxf(TPA_RATE_LOWER_LIMIT, fminf(1.0f, tpa))
TpaLimit(f) == FMax(TPA_RATE_LOWER_LIMIT, FMin(100, f))

\* pidAttenuationPerAxis: roll, pitch, yaw
PidAttenuations(tpa_breakpoint, tpa_rate, th) ==
    LET f == TpaLimit(TpaLine(tpa_breakpoint, tpa_rate, th))
    IN  <<f, f, 100>>

\* the last two of a sequence
LastTwo(q) == IF Len(q) > 2 THEN SubSeq(q, Len(q) - 1, Len(q)) ELSE q

\* pid_attenuations is not called by the loop: its record stays empty there
NoTpa == [bp |-> 0, rate |-> 0, th |-> << >>, f |-> << >>]

\* a call of pid_attenuations(tpa.bp, tpa.rate) with _thrust_sp = th; the
\* record keeps the last two thrusts and results
Attenuate(th) ==
    /\ tpa' = [tpa EXCEPT !.th = LastTwo(Append(@, th)),
                          !.f = LastTwo(Append(@, PidAttenuations(tpa.bp, tpa.rate, th)))]
    /\ UNCHANGED <<now, v_control_mode, vehicle_status, actuators_id, manual_control_sp,
                   landed, landing_gear, gear_state_initialized, battery_scale,
                   bat_scale_en, circuit_breaker, att_control, thrust_sp, v_att,
                   pos_current, cyw, cfg, emitted, trace, hist, since_run, gyro_count,
                   selected_gyro, sensor_correction, saturation_status, rates_int,
                   rate_int_lim, loop_rate, rates_sp, v_att_sp, pc, exit_requested,
                   subs, scn>>

(***************************************************************************)
(* Environments: the messages an iteration may find.                       *)
(***************************************************************************)
Manual0 == [x |-> 0, y |-> 0, z |-> 0, gear_switch |-> "NONE"]
Status0 == [is_vtol |-> FALSE, is_rotary_wing |-> TRUE]
Pos0 == [z |-> 0, vz |-> 0]

\* parameter values: the breaker and battery scaling off, MC_*_INT_LIM 0.30
Params0 == [cbrk |-> FALSE, bat_scale_en |-> FALSE, int_lim |-> <<30, 30, 30>>]

\* an iteration that finds no new message; in the environments that count
\* the clock in seconds the gyro samples are a poll wait or more apart
Quiet ==
    [adv |-> 0, us |-> PollWait, cm_upd |-> FALSE, cm |-> ControlMode0, st_upd |-> FALSE, st |-> Status0,
     bat_upd |-> FALSE, scale |-> 100, land_upd |-> FALSE, landed |-> FALSE,
     lg_upd |-> FALSE, lg |-> GEAR_DOWN, man_upd |-> FALSE, man |-> Manual0,
     att_upd |-> FALSE, att |-> Zero3, rsp_upd |-> FALSE, rsp_thrust_body2 |-> 0,
     rsp_rates |-> Zero3, asp_upd |-> FALSE, asp |-> Zero3,
     par_upd |-> FALSE, par |-> Params0,
     ml_upd |-> FALSE, ml |-> NoSaturation,
     pos_upd |-> FALSE, pos |-> Pos0, rates |-> Zero3,
     sc_upd |-> FALSE, sc_instance |-> 0]

\* altitude samples pos_current.z (NED: altitude is -z), hundredths of a metre
AltSamples == {0, -10, -120, -250}

\* _v_control_mode with the arming and rate-control flags given, in acro mode
AcroMode(ar, ra) ==
    [ControlMode0 EXCEPT !.flag_armed = ar, !.flag_control_rates_enabled = ra,
                         !.flag_control_manual_enabled = TRUE]

\* one uninterrupted flight: armed in the first seconds or never, and never
\* disarmed; the clock and the altitude vary
FlightInputs ==
    { [Quiet EXCEPT !.adv = a, !.cm_upd = TRUE,
                    !.cm = AcroMode(v_control_mode.flag_armed \/ now + a <= MaxStep, TRUE),
                    !.pos_upd = TRUE, !.pos = [z |-> z, vz |-> 0]] :
        a \in 0..MaxStep, z \in AltSamples }

\* arming, disarming and the rate-control flag change in any order; a throttle
\* stick in acro mode
RearmInputs ==
    { [Quiet EXCEPT !.adv = a, !.cm_upd = TRUE, !.cm = AcroMode(ar, ra),
                    !.pos_upd = TRUE, !.pos = [z |-> -120, vz |-> 0],
                    !.man_upd = mu, !.man = [Manual0 EXCEPT !.z = 50]] :
        a \in 0..MaxStep, ar \in BOOLEAN, ra \in BOOLEAN, mu \in BOOLEAN }

\* an armed flight at one altitude in which one message arrives per
\* iteration: a control mode (with or without flight termination) together
\* with the status of a multicopter, a battery status with a negative, zero,
\* positive or NaN scale, the compensation switch, or a landing-gear command
BatteryInputs ==
    LET base == [Quiet EXCEPT !.pos_upd = TRUE, !.pos = [z |-> -120, vz |-> 0]]
        events ==
            { [base EXCEPT !.cm_upd = TRUE,
                           !.cm = [AcroMode(TRUE, TRUE) EXCEPT
                                      !.flag_control_termination_enabled = tm],
                           !.st_upd = TRUE, !.st = Status0] :
                tm \in BOOLEAN }
            \cup { [base EXCEPT !.bat_upd = TRUE, !.scale = sc] : sc \in {-50, 0, 60, NaN} }
            \cup { [base EXCEPT !.par_upd = TRUE,
                                !.par = [Params0 EXCEPT !.bat_scale_en = en]] :
                     en \in BOOLEAN }
            \cup { [base EXCEPT !.lg_upd = TRUE, !.lg = GEAR_UP] }
    IN  { [e EXCEPT !.adv = a] : e \in events, a \in {0, 1} }

\* control modes and vehicle statuses arriving in any order, alone or in the
\* same iteration: rate control on or off, flight termination, VTOL or not
TopicInputs ==
    LET modes == { ControlMode0, AcroMode(FALSE, TRUE),
                   [AcroMode(FALSE, FALSE) EXCEPT !.flag_control_termination_enabled = TRUE] }
        stats == { [Status0 EXCEPT !.is_vtol = v] : v \in BOOLEAN }
        events ==
            { [Quiet EXCEPT !.cm_upd = TRUE, !.cm = cm] : cm \in modes }
            \cup { [Quiet EXCEPT !.st_upd = TRUE, !.st = st] : st \in stats }
            \cup { [Quiet EXCEPT !.cm_upd = TRUE, !.cm = cm, !.st_upd = TRUE, !.st = st] :
                     cm \in modes, st \in stats }
    IN  { [e EXCEPT !.adv = a] : e \in events, a \in {0, 1} }

\* arming, disarming and the rate-control flag change in any order at one
\* altitude, the sticks at rest
ReturnInputs ==
    { [Quiet EXCEPT !.adv = a, !.cm_upd = TRUE, !.cm = AcroMode(ar, ra),
                    !.pos_upd = TRUE, !.pos = [z |-> -120, vz |-> 0]] :
        a \in 0..MaxStep, ar \in BOOLEAN, ra \in BOOLEAN }

\* an armed flight in which one message arrives per iteration: a control mode
\* (with or without flight termination), a battery status, a parameter update
\* or a position sample; scales and samples include non-finite values
OutputEvents ==
    { [Quiet EXCEPT !.cm_upd = TRUE,
                    !.cm = [AcroMode(TRUE, TRUE) EXCEPT
                               !.flag_control_termination_enabled = tm]] :
        tm \in BOOLEAN }
    \cup { [Quiet EXCEPT !.bat_upd = TRUE, !.scale = sc] : sc \in {130, PInf} }
    \cup { [Quiet EXCEPT !.par_upd = TRUE, !.par = [Params0 EXCEPT !.cbrk = cb, !.bat_scale_en = en]] :
             cb \in BOOLEAN, en \in BOOLEAN }
    \cup { [Quiet EXCEPT !.pos_upd = TRUE, !.pos = [z |-> z, vz |-> 0]] :
             z \in {-10, NaN} }

OutputInputs == { [e EXCEPT !.adv = a] : e \in OutputEvents, a \in 0..MaxStep }

\* _v_control_mode in a manual attitude mode (stabilized) or in position mode
AttitudeMode(ar, position) ==
    [ControlMode0 EXCEPT !.flag_armed = ar, !.flag_control_rates_enabled = TRUE,
                         !.flag_control_attitude_enabled = TRUE,
                         !.flag_control_manual_enabled = TRUE,
                         !.flag_control_altitude_enabled = position,
                         !.flag_control_velocity_enabled = position,
                         !.flag_control_position_enabled = position]

\* flight-mode changes, land detection, the gear switch and attitude
\* estimates, one message per iteration
GearEvents ==
    { [Quiet EXCEPT !.cm_upd = TRUE, !.cm = AttitudeMode(ar, ps)] :
        ar \in BOOLEAN, ps \in BOOLEAN }
    \cup { [Quiet EXCEPT !.att_upd = TRUE] }
    \cup { [Quiet EXCEPT !.land_upd = TRUE, !.landed = l] : l \in BOOLEAN }
    \cup { [Quiet EXCEPT !.man_upd = TRUE, !.man = [Manual0 EXCEPT !.gear_switch = sw]] :
             sw \in {"ON", "OFF"} }

GearInputs == { [e EXCEPT !.adv = a] : e \in GearEvents, a \in 0..MaxStep }

\* microseconds between two wake-ups of the loop: none, below the lower
\* guard of dt, on it, a 250 Hz gyro, on the upper guard, above it
FineGaps == {0, 150, DtMin, 4000, DtMax, 25000}

\* saturation reports of the mixer: none, roll saturated high, roll saturated
\* low, every axis saturated both ways
Saturations ==
    { NoSaturation,
      [NoSaturation EXCEPT !.pos = <<TRUE, FALSE, FALSE>>],
      [NoSaturation EXCEPT !.neg = <<TRUE, FALSE, FALSE>>],
      [pos |-> <<TRUE, TRUE, TRUE>>, neg |-> <<TRUE, TRUE, TRUE>>] }

\* integrator limits MC_*_INT_LIM the parameters may hold, hundredths
IntLimits == {0, 30}

\* the rate controller of a vehicle that is armed and disarmed, that is or is
\* not a rotary wing and whose flight is terminated, with saturation reports
\* and parameter updates, one message per iteration
IntegratorEvents ==
    { [Quiet EXCEPT !.adv = 0, !.cm_upd = TRUE,
                    !.cm = [AcroMode(ar, TRUE) EXCEPT
                               !.flag_control_termination_enabled = tm]] :
        ar \in BOOLEAN, tm \in BOOLEAN }
    \cup { [Quiet EXCEPT !.st_upd = TRUE, !.st = [Status0 EXCEPT !.is_rotary_wing = rw]] :
             rw \in BOOLEAN }
    \cup { [Quiet EXCEPT !.ml_upd = TRUE, !.ml = sat] : sat \in Saturations }
    \cup { [Quiet EXCEPT !.par_upd = TRUE, !.par = [Params0 EXCEPT !.int_lim = <<l, l, l>>]] :
             l \in IntLimits }

\* the loop within one second: arming and the rate-control flag change, one
\* message per iteration, and the gyro samples are microseconds apart
LoopEvents ==
    { [Quiet EXCEPT !.cm_upd = TRUE, !.cm = AcroMode(ar, ra)] :
        ar \in BOOLEAN, ra \in BOOLEAN }
    \cup { [Quiet EXCEPT !.sc_upd = TRUE, !.sc_instance = g] : g \in 0..MAX_GYRO_COUNT }

LoopInputs == { [e EXCEPT !.us = g] : e \in LoopEvents, g \in FineGaps }

\* a task that is started and stopped: arming and disarming with the rate
\* controller on, parameter updates
RunInputs ==
    { [Quiet EXCEPT !.adv = 0, !.cm_upd = TRUE, !.cm = AcroMode(ar, TRUE)] : ar \in BOOLEAN }
    \cup { [Quiet EXCEPT !.adv = 0, !.par_upd = TRUE, !.par = [Params0 EXCEPT !.cbrk = cb]] :
             cb \in BOOLEAN }

\* a task whose gyro delivers 50 samples a second, or none for a second; the
\* vehicle is armed and disarmed with the rate controller off
RateInputs ==
    { [Quiet EXCEPT !.adv = a, !.us = DtMax, !.cm_upd = TRUE,
                    !.cm = [ControlMode0 EXCEPT !.flag_armed = ar]] :
        a \in {0, 1}, ar \in BOOLEAN }

\* an armed flight of mission 2 in which every iteration finds a position, an
\* attitude and body rates, all finite; the gyro samples are the lower or the
\* upper guard of dt apart.  The body rates, in hundredths of rad/s: none,
\* moderate, on the edge of the nominal range, the largest finite floats
FeedbackInputs ==
    { [Quiet EXCEPT !.adv = a, !.us = g, !.cm_upd = TRUE, !.cm = AcroMode(TRUE, TRUE),
                    !.pos_upd = TRUE, !.pos = [z |-> z, vz |-> 0],
                    !.att_upd = TRUE, !.att = at, !.rates = r] :
        a \in {0, 1}, g \in {DtMin, DtMax}, z \in {-120, -FltMax},
        at \in {Zero3, <<30, -30, NominalAngle>>},
        r \in { Zero3, <<100, -50, 20>>, <<NominalRate, -NominalRate, NominalRate>>,
                <<FltMax, 0, 0>>, <<FltMax, FltMax, -FltMax>> } }

\* the attitude controller within one second: the vehicle follows external
\* rate setpoints (no control flag set) or is in a manual attitude mode or in
\* position mode, is or is not a rotary wing; attitude estimates arrive with
\* or without an attitude setpoint waiting, attitude setpoints and rate
\* setpoints arrive alone.  Angles and rates are zero or 0.1.
AttitudeInputs ==
    { [Quiet EXCEPT !.adv = 0, !.cm_upd = TRUE, !.cm = cm] :
        cm \in {ControlMode0, AttitudeMode(TRUE, FALSE), AttitudeMode(TRUE, TRUE)} }
    \cup { [Quiet EXCEPT !.adv = 0, !.st_upd = TRUE,
                         !.st = [Status0 EXCEPT !.is_rotary_wing = rw]] : rw \in BOOLEAN }
    \cup { [Quiet EXCEPT !.adv = 0, !.att_upd = TRUE, !.att = <<a, 0, 0>>,
                         !.asp_upd = au, !.asp = <<d, 0, 0>>] :
             a \in {0, 10}, au \in BOOLEAN, d \in {0, 10} }
    \cup { [Quiet EXCEPT !.adv = 0, !.asp_upd = TRUE, !.asp = <<10, 0, 0>>] }
    \cup { [Quiet EXCEPT !.adv = 0, !.rsp_upd = TRUE, !.rsp_rates = <<r, 0, 0>>] :
             r \in {0, 10} }

Inputs ==
    CASE scn = "flight" -> FlightInputs
      [] scn = "rearm" -> RearmInputs
      [] scn = "output" -> OutputInputs
      [] scn = "gear" -> GearInputs
      [] scn = "loop" -> LoopInputs
      [] scn = "integrator" -> IntegratorEvents
      [] scn = "run" -> RunInputs
      [] scn = "rate" -> RateInputs
      [] scn = "feedback" -> FeedbackInputs
      [] scn = "attitude" -> AttitudeInputs
      [] scn = "return" -> ReturnInputs
      [] scn = "battery" -> BatteryInputs
      [] scn = "topic" -> TopicInputs

(***************************************************************************)
(* run() from its subscriptions to its return, statement by statement      *)
(* around the iteration: pc is "start" before the subscriptions, "head" at *)
(* the test of the while loop, "poll" in px4_poll, "sample" when the poll  *)
(* has returned with a gyro sample, "unsubscribe" after the loop, "done"   *)
(* when run() has returned.                                                *)
(***************************************************************************)
\* the subscriptions run() opens (lines 1323-1346), as <<topic, instance>>
OpenedByRun(count) ==
    { <<"vehicle_attitude", 0>>, <<"vehicle_attitude_setpoint", 0>>,
      <<"vehicle_rates_setpoint", 0>>, <<"vehicle_control_mode", 0>>,
      <<"parameter_update", 0>>, <<"manual_control_setpoint", 0>>,
      <<"vehicle_status", 0>>, <<"multirotor_motor_limits", 0>>,
      <<"battery_status", 0>> }
    \cup { <<"sensor_gyro", g>> : g \in 0..(count - 1) }
    \cup { <<"sensor_correction", 0>>, <<"sensor_bias", 0>>,
           <<"vehicle_land_detected", 0>>, <<"landing_gear", 0>> }

\* the subscriptions run() closes after the loop (lines 1508-1525)
ClosedByRun(count) ==
    { <<"vehicle_attitude", 0>>, <<"vehicle_attitude_setpoint", 0>>,
      <<"vehicle_rates_setpoint", 0>>, <<"vehicle_control_mode", 0>>,
      <<"parameter_update", 0>>, <<"manual_control_setpoint", 0>>,
      <<"vehicle_status", 0>>, <<"multirotor_motor_limits", 0>>,
      <<"battery_status", 0>> }
    \cup { <<"sensor_gyro", g>> : g \in 0..(count - 1) }
    \cup { <<"sensor_correction", 0>>, <<"sensor_bias", 0>>,
           <<"vehicle_land_detected", 0>>, <<"landing_gear", 0>> }

\* a task that looks at the stop signal wherever it is
StopObservedAnywhere(at, flag) == at \in {"head", "poll", "sample"} /\ flag

\* a loop that a poll that timed out or failed ends: a fatal fault
StopObservedOrFault(at, flag) == at = "head" /\ (flag \/ since_run = PollWait)

\* while (!should_exit()): the stop signal is looked at at the head of an
\* iteration and nowhere else
StopObserved(at, flag) == at = "head" /\ flag

\* everything but pc, exit_requested, subs
loopVars == <<now, v_control_mode, vehicle_status, actuators_id, manual_control_sp,
              landed, landing_gear, gear_state_initialized, battery_scale,
              bat_scale_en, circuit_breaker, att_control, thrust_sp, v_att,
              pos_current, cyw, cfg, emitted, trace, hist, since_run, gyro_count,
              selected_gyro, sensor_correction, saturation_status, rates_int,
              rate_int_lim, tpa, loop_rate, rates_sp, v_att_sp, scn>>

\* do subscriptions
Subscribe ==
    /\ pc = "start"
    /\ subs' = subs \cup OpenedByRun(gyro_count)
    /\ pc' = "head"
    /\ UNCHANGED <<loopVars, exit_requested>>

\* the loop condition holds: poll_fds.fd = ...; px4_poll(&poll_fds, 1, 100)
EnterIteration ==
    /\ pc = "head" /\ ~exit_requested
    /\ pc' = "poll"
    /\ UNCHANGED <<loopVars, exit_requested, subs>>

\* the loop condition fails
LeaveLoop ==
    /\ StopObserved(pc, exit_requested)
    /\ pc' = "unsubscribe"
    /\ UNCHANGED <<loopVars, exit_requested, subs>>

\* px4_poll returns 0 after its 100 ms
RunTimeout ==
    /\ pc = "poll"
    /\ PollTimeout
    /\ pc' = "head"
    /\ UNCHANGED <<exit_requested, subs>>

\* px4_poll fails
RunError ==
    /\ pc = "poll"
    /\ PollError
    /\ pc' = "head"
    /\ UNCHANGED <<exit_requested, subs>>

\* px4_poll returns with POLLIN set
Wake ==
    /\ pc = "poll"
    /\ pc' = "sample"
    /\ UNCHANGED <<loopVars, exit_requested, subs>>

\* the branch that processes the gyro sample, to parameter_update_poll
RunSample ==
    /\ pc = "sample"
    /\ \E in \in Inputs : Cycle(in)
    /\ pc' = "head"
    /\ UNCHANGED exit_requested

\* the subscriptions are closed and run() returns
Unsubscribe ==
    /\ pc = "unsubscribe"
    /\ subs' = subs \ ClosedByRun(gyro_count)
    /\ pc' = "done"
    /\ UNCHANGED <<loopVars, exit_requested>>

\* the module is asked to stop (request_stop), at any moment of run()
RequestStop ==
    /\ ~exit_requested /\ pc # "done"
    /\ exit_requested' = TRUE
    /\ UNCHANGED <<loopVars, pc, subs>>

\* the steps of run() around the processing of a sample
LoopStep ==
    \/ Subscribe \/ EnterIteration \/ LeaveLoop \/ RunTimeout \/ RunError
    \/ Wake \/ Unsubscribe

\* the steps of run()
RunStep == LoopStep \/ RunSample

\* what RunSample, the only step from "sample" to "head", does to pc
SampleProcessed == pc = "sample" /\ pc' = "head"

(***************************************************************************)
(* Specifications.                                                         *)
(***************************************************************************)
\* run() is in its loop and has not been asked to stop
Running ==
    /\ pc = "head"
    /\ exit_requested = FALSE
    /\ subs = OpenedByRun(gyro_count)

InitCommon ==
    /\ now = 1
    /\ v_control_mode = ControlMode0
    /\ vehicle_status = Status0
    /\ actuators_id = "unset"
    /\ manual_control_sp = Manual0
    /\ landed = FALSE
    /\ landing_gear = GEAR_DOWN
    /\ gear_state_initialized = FALSE
    /\ battery_scale = 100
    /\ bat_scale_en = FALSE
    /\ circuit_breaker = FALSE
    /\ att_control = Zero3
    /\ thrust_sp = 0
    /\ v_att = Zero3
    /\ pos_current = Pos0
    /\ emitted = << >>
    /\ trace = NoTrace
    /\ hist = [arm_pending |-> FALSE, rearmed |-> FALSE, timed_out |-> FALSE,
               held_on |-> FALSE, classical |-> FALSE, off_since_land |-> FALSE,
               off_after_land |-> FALSE]
    /\ since_run = 0
    /\ selected_gyro = 0
    /\ sensor_correction = 0
    /\ saturation_status = NoSaturation
    /\ rates_int = RatesInt0
    /\ tpa = NoTpa
    /\ loop_rate = LoopRate0(now)
    /\ rates_sp = Zero3
    /\ v_att_sp = Zero3

\* the members the code never writes: safety_return_time (seconds),
\* return_degress_rate (hundredths), cywmc_angle_control
Config(srt, rr, ang) ==
    [safety_return_time |-> srt, return_degress_rate |-> rr,
     cywmc_angle_control |-> ang]

InitFlight ==
    /\ InitCommon
    /\ scn = "flight"
    /\ gyro_count = 1
    /\ Running
    /\ rate_int_lim = Params0.int_lim
    /\ cyw = Cyw0(1)
    /\ \E rr \in {50, 90} : cfg = Config(FlightTime - 3, rr, TRUE)

InitRearm ==
    /\ InitCommon
    /\ scn = "rearm"
    /\ gyro_count = 1
    /\ Running
    /\ rate_int_lim = Params0.int_lim
    /\ cyw = Cyw0(1)
    /\ \E ang \in BOOLEAN : cfg = Config(Mission1Times[1], 50, ang)

InitOutput ==
    /\ InitCommon
    /\ scn = "output"
    /\ gyro_count = 1
    /\ Running
    /\ rate_int_lim = Params0.int_lim
    /\ cyw = Cyw0(2)
    /\ cfg = Config(mission_2_time_still + mission_2_time_height, 50, TRUE)

InitGear ==
    /\ InitCommon
    /\ scn = "gear"
    /\ gyro_count = 1
    /\ Running
    /\ rate_int_lim = Params0.int_lim
    /\ cyw = Cyw0(1)
    /\ cfg = Config(Mission1Times[1], 50, TRUE)

InitLoop ==
    /\ InitCommon
    /\ scn = "loop"
    /\ \E n \in 0..(MAX_GYRO_COUNT + 1) : gyro_count = GyroCount(n)
    /\ Running
    /\ rate_int_lim = Params0.int_lim
    /\ cyw = Cyw0(1)
    /\ cfg = Config(Mission1Times[1], 50, TRUE)

InitIntegrator ==
    /\ InitCommon
    /\ scn = "integrator"
    /\ gyro_count = 1
    /\ Running
    \* parameters_updated() of the constructor
    /\ \E l \in IntLimits : rate_int_lim = <<l, l, l>>
    /\ cyw = Cyw0(1)
    /\ cfg = Config(Mission1Times[1], 50, TRUE)

InitRate ==
    /\ InitCommon
    /\ scn = "rate"
    /\ gyro_count = 1
    /\ Running
    /\ rate_int_lim = Params0.int_lim
    /\ cyw = Cyw0(1)
    /\ cfg = Config(Mission1Times[1], 50, TRUE)

InitFeedback ==
    /\ InitCommon
    /\ scn = "feedback"
    /\ gyro_count = 1
    /\ Running
    /\ rate_int_lim = Params0.int_lim
    /\ cyw = Cyw0(2)
    /\ cfg = Config(mission_2_time_still + mission_2_time_height, 50, TRUE)

InitAttitude ==
    /\ InitCommon
    /\ scn = "attitude"
    /\ gyro_count = 1
    /\ Running
    /\ rate_int_lim = Params0.int_lim
    /\ cyw = Cyw0(1)
    /\ cfg = Config(Mission1Times[1], 50, TRUE)

\* breakpoints MC_TPA_BREAK_*, rates MC_TPA_RATE_* and thrust setpoints, in
\* hundredths: inside and outside the ranges of the parameters, the breakpoint
\* 1.0 that makes the divisor zero, non-finite thrusts
TpaBreakpoints == {-50, 0, 50, 100, 150}
TpaRates == {-100, 0, 50, 100, 300}
ThrustSamples == {NInf, -150, -80, -50, 0, 30, 50, 80, 100, 150, PInf, NaN}

\* mission 2 and its return with arming, disarming and the rate-control flag
\* in any order; the safety timeout lies beyond the horizon
InitReturn ==
    /\ InitCommon
    /\ scn = "return"
    /\ gyro_count = 1
    /\ Running
    /\ rate_int_lim = Params0.int_lim
    /\ cyw = Cyw0(2)
    /\ cfg = Config(MaxTime + 1, 50, TRUE)

\* mission 2 with battery statuses of every sign
InitBattery ==
    /\ InitCommon
    /\ scn = "battery"
    /\ gyro_count = 1
    /\ Running
    /\ rate_int_lim = Params0.int_lim
    /\ cyw = Cyw0(2)
    /\ cfg = Config(mission_2_time_still + mission_2_time_height, 50, TRUE)

\* a task that has seen neither a control mode nor a vehicle status
InitTopic ==
    /\ InitCommon
    /\ scn = "topic"
    /\ gyro_count = 1
    /\ Running
    /\ rate_int_lim = Params0.int_lim
    /\ cyw = Cyw0(1)
    /\ cfg = Config(Mission1Times[1], 50, TRUE)

InitTpa ==
    /\ now = 1
    /\ v_control_mode = ControlMode0
    /\ vehicle_status = Status0
    /\ actuators_id = "unset"
    /\ manual_control_sp = Manual0
    /\ landed = FALSE
    /\ landing_gear = GEAR_DOWN
    /\ gear_state_initialized = FALSE
    /\ battery_scale = 100
    /\ bat_scale_en = FALSE
    /\ circuit_breaker = FALSE
    /\ att_control = Zero3
    /\ thrust_sp = 0
    /\ v_att = Zero3
    /\ pos_current = Pos0
    /\ emitted = << >>
    /\ trace = NoTrace
    /\ hist = [arm_pending |-> FALSE, rearmed |-> FALSE, timed_out |-> FALSE,
               held_on |-> FALSE, classical |-> FALSE, off_since_land |-> FALSE,
               off_after_land |-> FALSE]
    /\ since_run = 0
    /\ selected_gyro = 0
    /\ sensor_correction = 0
    /\ saturation_status = NoSaturation
    /\ rates_int = RatesInt0
    /\ loop_rate = LoopRate0(now)
    /\ rates_sp = Zero3
    /\ v_att_sp = Zero3
    /\ scn = "tpa"
    /\ gyro_count = 1
    /\ Running
    /\ rate_int_lim = Params0.int_lim
    /\ cyw = Cyw0(1)
    /\ cfg = Config(Mission1Times[1], 50, TRUE)
    /\ \E b \in TpaBreakpoints, r \in TpaRates : tpa = [NoTpa EXCEPT !.bp = b, !.rate = r]

\* the task before run() has made its subscriptions
InitRun ==
    /\ InitCommon
    /\ scn = "run"
    /\ gyro_count \in 1..MAX_GYRO_COUNT
    /\ rate_int_lim = Params0.int_lim
    /\ cyw = Cyw0(1)
    /\ cfg = Config(Mission1Times[1], 50, TRUE)
    /\ pc = "start"
    /\ exit_requested = FALSE
    /\ subs = {}

Init == InitFlight \/ InitRearm \/ InitOutput \/ InitGear \/ InitLoop \/ InitIntegrator

\* the loop of run(), iteration by iteration, of a task that is not asked to stop
Next ==
    \/ \E in \in Inputs : Cycle(in) /\ UNCHANGED <<pc, exit_requested>>
    \/ PollTimeout /\ UNCHANGED <<pc, exit_requested, subs>>
    \/ PollError /\ UNCHANGED <<pc, exit_requested, subs>>

Spec == Init /\ [][Next]_vars

SpecFlight == InitFlight /\ [][Next]_vars

SpecRearm == InitRearm /\ [][Next]_vars

SpecOutput == InitOutput /\ [][Next]_vars

SpecGear == InitGear /\ [][Next]_vars

SpecLoop == InitLoop /\ [][Next]_vars

SpecIntegrator == InitIntegrator /\ [][Next]_vars

SpecRate == InitRate /\ [][Next]_vars

SpecFeedback == InitFeedback /\ [][Next]_vars

SpecAttitude == InitAttitude /\ [][Next]_vars

SpecReturn == InitReturn /\ [][Next]_vars

SpecBattery == InitBattery /\ [][Next]_vars

SpecTopic == InitTopic /\ [][Next]_vars

\* run() from start to return, with a stop request at any moment
NextRun == RunStep \/ RequestStop

SpecRun == InitRun /\ [][NextRun]_vars

\* the task is scheduled and px4_poll returns after 100 ms at the latest: a
\* step of run() that can be taken is taken.  The branch that processes a
\* sample has no loop and no blocking call, so a sample that is being
\* processed is processed to the end; its fairness is stated on pc alone.
FairRun == SpecRun /\ WF_vars(LoopStep) /\ WF_pc(SampleProcessed)

\* pid_attenuations applied to thrust setpoints, for parameters drawn at the start
NextTpa == \E th \in ThrustSamples : Attenuate(th)

SpecTpa == InitTpa /\ [][NextTpa]_vars
(***************************************************************************)
(* Properties.                                                             *)
(***************************************************************************)
Zero4 == <<0, 0, 0, 0>>

\* C1: in every actuator vector published, each primary channel control[0..3]
\* is finite (also after battery scaling) and is exactly 0 where the computed
\* value (_att_control, _thrust_sp) is NaN or +/-Inf.
C1_OutputSanitised ==
    \A i \in DOMAIN emitted : \A j \in 1..4 :
        /\ IsFinite(emitted[i].control[j])
        /\ (~IsFinite(emitted[i].computed[j]) => emitted[i].control[j] = 0)

\* C2: an iteration that runs with the rate-control circuit breaker engaged
\* publishes no actuator vector, neither on the rate-controller path nor on
\* the flight-termination path.
C2_BreakerGatesPublication == trace.cb => emitted = << >>

\* C2 witness: an iteration with the breaker engaged ran the rate controller
\* and took the flight-termination branch.
C2_BreakerEngagedBothPaths == trace.cb /\ trace.ran /\ trace.term

\* the mission 1 phase of run_t by half-open intervals of the cumulative thresholds
Mission1Specified(run_t) ==
    LET T == Mission1Times
    IN  IF run_t < T[1] THEN "still"
        ELSE IF run_t < T[1] + T[2] THEN "h1"
        ELSE IF run_t < T[1] + T[2] + T[3] THEN "h2"
        ELSE IF run_t < T[1] + T[2] + T[3] + T[4] THEN "h3"
        ELSE "return"

\* C3: whenever the sequencer evaluates mission 1, the branch it takes is the
\* one of the half-open interval [T_0+..+T_{k-1}, T_0+..+T_k) that contains
\* run_t: stand-still on [0,5), 1 m on [5,20), 1.5 m on [20,35), 2 m on
\* [35,50), Returning from 50 on.
C3_PhaseSelection ==
    (trace.block /\ trace.mission = 1) => trace.phase = Mission1Specified(cyw.run_t)

\* C4: once run_t has exceeded safety_return_time the feedback path is
\* disabled for good: cywmc_able is clear from then on and no later iteration
\* executes the sequencer and the feedback law, also after a disarm and re-arm.
C4_TimeoutLatches ==
    /\ hist.timed_out => ~cyw.cywmc_able
    /\ trace.after_timeout => ~trace.block

\* C4 witness: after the timeout the vehicle was disarmed and armed again, and
\* the rate controller ran with the vehicle armed.
C4_RearmedAfterTimeout == hist.rearmed /\ trace.ran /\ trace.armed

\* C5: every actuator vector published in an iteration after the one in which
\* the safety timeout fired carries zero thrust and zero roll/pitch/yaw demand.
C5_TimeoutZeroesOutput ==
    trace.after_timeout => \A i \in DOMAIN emitted : emitted[i].computed = Zero4

\* C6: the first sequencer evaluation after an arming sees run_t = 0, counted
\* from that arming, whatever the order in which the armed flag and the
\* rates-enabled flag changed before.
C6_RunTimeResets == trace.first_eval => cyw.run_t = 0

\* C7: at the end of every Returning iteration setout_Z is 0 or at least the
\* 0.25 m floor; it is not above its value at the start of the iteration when
\* that was at or above the floor, and it stays 0 once it is 0.
C7_ReturnMonotone ==
    trace.returning =>
        /\ (cyw.setout_Z = 0 \/ FGe(cyw.setout_Z, ReturnFloor))
        /\ (FGe(trace.prev_Z, ReturnFloor) => cyw.setout_Z <= trace.prev_Z)
        /\ (trace.prev_Z = 0 => cyw.setout_Z = 0)

\* C7 witness: a Returning iteration that started with setout_Z at or above
\* the floor ended with setout_Z snapped to 0.
C7_SnappedFromFloor ==
    trace.returning /\ FGe(trace.prev_Z, ReturnFloor) /\ cyw.setout_Z = 0

\* C8: in every Returning iteration whose altitude sample -Z is below 0.2 m,
\* the published thrust and roll/pitch/yaw demands are all zero.
C8_GroundedSuppressed ==
    (trace.returning /\ FLt(FNeg(pos_current.z), GroundedAlt)) =>
        \A i \in DOMAIN emitted : emitted[i].control = Zero4

\* the first threshold T_0 of the selected mission
FirstThreshold ==
    IF cyw.is_msl_t_set THEN cyw.ms1_t[1]
    ELSE IF cyw.modern_control_mission_select = 1 THEN Mission1Times[1]
    ELSE mission_2_time_still

C10_GearLatch == (hist.held_on /\ trace.gear_called) => trace.gear_out # GEAR_UP

\* C11: the time step dt of every iteration that processes a gyro sample lies
\* between the lower guard 0.0002 s and the upper guard 0.02 s, whatever time
\* has passed since last_run, poll timeouts and poll errors included.
C11_DtWithinGuards == trace.gyro => (trace.dt >= DtMin /\ trace.dt <= DtMax)

\* an iteration ran the rate controller after polls that timed out or failed
\* had let a whole poll wait pass since last_run, and its dt is the upper guard
C11_ClampedAfterWait ==
    scn = "loop" /\ trace.gyro /\ trace.ran /\ trace.elapsed = PollWait /\ trace.dt = DtMax

\* C12: the state-feedback block is the only producer of what the rate path
\* publishes: no iteration publishes a thrust that a classical path stored in
\* _thrust_sp (the acro stick, an external rate setpoint), in any phase of
\* the mission and after any sequence of mode changes.
C12_NoClassicalOutput == ~trace.classical_out

\* C13: whenever the gyro instance that the sensor correction reports is not
\* below the number of subscribed gyro instances, the selected gyro after
\* sensor_correction_poll is instance 0, whatever was selected before.
C13_InvalidSelectsZero ==
    (trace.gyro /\ sensor_correction >= gyro_count) => selected_gyro = 0

\* C14: at the end of every cycle of the rate controller that ran while the
\* vehicle was disarmed or not a rotary wing, the integrator _rates_int is
\* the zero vector.
C14_IntegratorReset ==
    trace.reset_case => (trace.int_after = Zero3 /\ rates_int = Zero3)

\* the rate controller ran on a disarmed vehicle
C14_RanDisarmed == trace.reset_case /\ ~trace.armed

\* C15: after any sequence of rate-controller cycles, parameter reloads,
\* arming changes and flight terminations, the magnitude of every component
\* of the integrator _rates_int is at most the limit _rate_int_lim of its axis.
C15_IntegratorWithinLimit ==
    \A i \in 1..3 : FGe(rate_int_lim[i], FAbs(rates_int[i]))

\* the rate controller ran on an armed rotary wing whose integrator limits a
\* parameter reload had set to zero
C15_ArmedAtZeroLimit ==
    /\ scn = "integrator"
    /\ trace.ran /\ trace.armed /\ ~trace.reset_case
    /\ rate_int_lim = Zero3

\* C16: in a cycle of the rate controller in which the positive-saturation
\* flag of an axis is set the integration step does not increase the
\* integrator of that axis, and it does not decrease it when the
\* negative-saturation flag is set.
C16_AntiWindup ==
    \A i \in 1..3 :
        /\ trace.sat.pos[i] => ~FGt(trace.int_after[i], trace.int_before[i])
        /\ trace.sat.neg[i] => ~FLt(trace.int_after[i], trace.int_before[i])

\* the rate controller ran on an armed rotary wing with the roll axis
\* saturated high
C16_ArmedSaturated ==
    trace.ran /\ trace.armed /\ ~trace.reset_case /\ trace.sat.pos[1]

\* C17: for every breakpoint, rate and thrust setpoint the roll and pitch
\* factors of pid_attenuations lie between 0.05 and 1.0 and the yaw factor is
\* exactly 1.0.
C17_TpaRange ==
    \A k \in 1..Len(tpa.f) :
        /\ FGe(tpa.f[k][1], TPA_RATE_LOWER_LIMIT) /\ FGe(100, tpa.f[k][1])
        /\ FGe(tpa.f[k][2], TPA_RATE_LOWER_LIMIT) /\ FGe(100, tpa.f[k][2])
        /\ tpa.f[k][3] = 100

\* with the breakpoint 1.0 (divisor zero) a thrust on the breakpoint, where
\* the line is 0/0, gave the factor 1.0 and a thrust above it the factor 0.05
C17_BothLimitsAtZeroDivisor ==
    /\ tpa.bp = 100 /\ Len(tpa.f) = 2
    /\ tpa.th = <<100, 150>>
    /\ tpa.f[1][1] = 100 /\ tpa.f[2][1] = TPA_RATE_LOWER_LIMIT

\* C18: above the breakpoint the roll and pitch factors of pid_attenuations
\* do not increase with the magnitude of the thrust: for every breakpoint and
\* rate, bp <= |t1| <= |t2| implies factor(t2) <= factor(t1).
C18_TpaMonotone ==
    Len(tpa.f) = 2 =>
        \A a, b \in 1..2 :
            (FGe(FAbs(tpa.th[a]), tpa.bp) /\ FGe(FAbs(tpa.th[b]), FAbs(tpa.th[a])))
                => (FGe(tpa.f[a][1], tpa.f[b][1]) /\ FGe(tpa.f[a][2], tpa.f[b][2]))

\* two thrusts above the breakpoint gave factors strictly between the limits,
\* the larger thrust the smaller factor
C18_StrictlyAttenuated ==
    /\ Len(tpa.f) = 2
    /\ FGe(FAbs(tpa.th[1]), tpa.bp) /\ FGt(FAbs(tpa.th[2]), FAbs(tpa.th[1]))
    /\ FLt(tpa.f[2][1], tpa.f[1][1])
    /\ FGt(tpa.f[2][1], TPA_RATE_LOWER_LIMIT) /\ FLt(tpa.f[1][1], 100)

\* the number of calls of publish_actuator_controls in an iteration
Publications(tr) == (IF tr.ran THEN 1 ELSE 0) + (IF tr.term THEN 1 ELSE 0)

\* C19: parameters are reloaded at one point of an iteration, after all
\* control computation and publication: the breaker flag, the battery-scaling
\* switch and the integrator limits change only in an iteration that
\* processes a gyro sample, and every publication of that iteration is gated
\* and scaled with the values the iteration started with.
C19_ReloadAtCycleEnd ==
    [][/\ (<<circuit_breaker, bat_scale_en, rate_int_lim>>'
              # <<circuit_breaker, bat_scale_en, rate_int_lim>>) => trace'.gyro
       /\ trace'.gyro =>
              /\ Len(emitted') = IF circuit_breaker THEN 0 ELSE Publications(trace')
              /\ \A k \in 1..Len(emitted') : \A j \in 1..4 :
                     emitted'[k].control[j] =
                         Channel(emitted'[k].computed[j], bat_scale_en, emitted'[k].scale)]_vars

\* an iteration published on both paths under the breaker value it started
\* with, and its parameter reload then engaged the breaker and switched the
\* battery scaling
C19_ReloadAfterTwoPublications ==
    /\ trace.ran /\ trace.term /\ Len(emitted) = 2
    /\ ~trace.cb /\ circuit_breaker
    /\ bat_scale_en /\ emitted[2].scale # 100 /\ emitted[2].control = emitted[2].computed

\* what a step of run() respects: an iteration with a gyro sample to process
\* ends at the head of the loop with the sample processed; the loop is left
\* from its head only; at the head a requested stop is obeyed; run()
\* returns with no subscription open
StopDiscipline ==
    /\ (pc = "sample") => (pc' = "sample" \/ (pc' = "head" /\ trace'.gyro))
    /\ (pc \in {"poll", "sample"}) => (pc' # "unsubscribe")
    /\ (pc = "head" /\ exit_requested) => (pc' = "unsubscribe")
    /\ (pc' = "done") => (subs' = {})

\* C20: the stop signal is looked at only at the head of an iteration: an
\* iteration that has a gyro sample to process runs to its end, through the
\* parameter poll, whether or not a stop was requested meanwhile; at the
\* head after a request run() leaves the loop; when run() has returned no
\* subscription it opened is left open; and a stop request always leads to
\* the return of run().
C20_CooperativeStop ==
    /\ [][StopDiscipline]_vars
    /\ (exit_requested ~> (pc = "done" /\ subs = {}))

\* run() has returned after a stop request: its last iteration processed a
\* gyro sample to the end, and the three gyro subscriptions and all the
\* others are closed
C20_StoppedAfterSample ==
    pc = "done" /\ exit_requested /\ trace.gyro /\ subs = {} /\ gyro_count = MAX_GYRO_COUNT

\* the state of the controller: everything the task holds but the clock, the
\* time since last_run and the record of the last iteration
ControllerState ==
    <<v_control_mode, vehicle_status, actuators_id, manual_control_sp, landed,
      landing_gear, gear_state_initialized, battery_scale, bat_scale_en,
      circuit_breaker, att_control, thrust_sp, v_att, pos_current, cyw, cfg, hist,
      gyro_count, selected_gyro, sensor_correction, saturation_status, rates_int,
      rate_int_lim, tpa, loop_rate, rates_sp, v_att_sp, subs>>

\* what a step of run() does with a poll that timed out or failed
FaultDiscipline ==
    /\ (pc = "poll" /\ pc' = "head") =>
           (ControllerState' = ControllerState /\ emitted' = << >> /\ ~trace'.ran)
    /\ (pc = "poll") => (pc' \in {"poll", "head", "sample"})
    /\ (pc # "unsubscribe" /\ pc' = "unsubscribe") => exit_requested

\* C21: an iteration whose gyro wait times out or fails changes no controller
\* state (modes, setpoints, integrator, mission timers, subscriptions),
\* publishes nothing and goes back to the head of the loop; the loop is left
\* only when a stop has been requested.
C21_FaultsNotFatal == [][FaultDiscipline]_vars

\* after an iteration of an armed vehicle, polls timed out or failed for a
\* whole poll wait and the task is at the head of its loop, not asked to stop
C21_ArmedFaultSurvived ==
    /\ pc = "head" /\ ~exit_requested
    /\ trace = NoTrace /\ since_run = PollWait
    /\ v_control_mode.flag_armed /\ circuit_breaker

\* C22: in every iteration that processes a gyro sample while the vehicle is
\* armed and more than 3.3 s after the start of the task, dt_accumulator,
\* loop_counter and the smoothed rate _loop_update_rate_hz are left as they
\* were and the estimator does not retune the cutoff of the D-term filter.
C22_RateFrozenInFlight ==
    [][(/\ trace'.gyro
        /\ v_control_mode'.flag_armed
        /\ (now' - loop_rate.task_start) * 1000000 > RateWindow)
       => (/\ loop_rate'.dt_accumulator = loop_rate.dt_accumulator
           /\ loop_rate'.loop_counter = loop_rate.loop_counter
           /\ loop_rate'.loop_update_rate_hz = loop_rate.loop_update_rate_hz
           /\ ~loop_rate'.retuned)]_vars

\* four seconds after the start an armed vehicle holds an estimate that was
\* smoothed at least once and a window that was begun after it
C22_FrozenWithEstimate ==
    /\ trace.gyro /\ v_control_mode.flag_armed
    /\ (now - loop_rate.task_start) * 1000000 > RateWindow
    /\ loop_rate.loop_update_rate_hz # loop_update_rate_hz_0
    /\ loop_rate.loop_counter > 0

\* C23 as stated: in every iteration in which the rate controller computes
\* the demand from finite measurements, for every dt within the guards, every
\* component of _att_control is finite.
C23_FiniteOutput ==
    (trace.block /\ trace.inputs \in {"nominal", "finite"}) =>
        \A i \in 1..3 : IsFinite(att_control[i])

\* C23: in every iteration in which the rate controller computes the demand
\* from finite measurements of nominal magnitude (angles within pi, body rates
\* within 100 rad/s, any finite position), for every dt within the guards,
\* every component of _att_control is finite.
C23_FiniteOutputNominal ==
    (trace.block /\ trace.inputs = "nominal") =>
        \A i \in 1..3 : IsFinite(att_control[i])

\* with the shortest dt and rates on the edge of the nominal range the yaw
\* demand came close to the largest float and the other two are not zero
C23_LargeFiniteDemand ==
    /\ trace.block /\ trace.inputs = "nominal" /\ trace.dt = DtMin
    /\ FAbs(att_control[3]) > 2 * NominalRate
    /\ att_control[1] # 0 /\ att_control[2] # 0

\* C24: whenever control_attitude runs with the attitude estimate equal to
\* the attitude setpoint (and no yaw feed-forward), the rate setpoint
\* _rates_sp after the call is the zero vector, whatever it held before.
C24_NoErrorNoRate ==
    (trace.att_ctrl /\ v_att = v_att_sp) => rates_sp = Zero3

\* C25 as stated: in every iteration in which the demand u = r - K*x is
\* computed, the altitude channel of r is the reference scale times the
\* commanded altitude setout_Z of that iteration, also when the sequencer or
\* the return ramp has just changed it, and the other three channels are 0.
C25_ReferenceTracksCommand ==
    (trace.block /\ cyw.mordern_control_able) =>
        cyw.ss_r = <<FMul(ss_G_scale_0, cyw.setout_Z), 0, 0, 0>>

\* C25: in every iteration in which the demand u = r - K*x is computed, the
\* altitude channel of r is the reference scale times the commanded altitude
\* the iteration started with (a change of setout_Z reaches r in the next
\* iteration), and the other three channels are 0.
C25_ReferenceTracksLastCommand ==
    [][(trace'.block /\ cyw'.mordern_control_able) =>
           cyw'.ss_r = <<FMul(ss_G_scale_0, cyw.setout_Z), 0, 0, 0>>]_vars

\* the iteration that entered the second height of mission 1 commanded 1.5 m
\* and computed its demand with the reference of 1 m
C25_ReferenceOneBehind ==
    /\ trace.block /\ trace.phase = "h2" /\ cyw.mordern_control_able
    /\ cyw.setout_Z = Mission1Heights[2]
    /\ cyw.ss_r[1] = FMul(ss_G_scale_0, Mission1Heights[1])

\* the guard of the decay step of a Returning iteration: the altitude is below
\* the return-aim divided by the rate and the commanded altitude is at or
\* above the floor, with the values the iteration started with
DecayGuard ==
    /\ FLt(FNeg(pos_current'.z), FDiv(cyw.back_Z_aim, cfg.return_degress_rate))
    /\ FGe(cyw.setout_Z, ReturnFloor)

\* the commanded altitude after "end return": 0 below the floor
Snapped(z) == IF FLt(z, ReturnFloor) THEN 0 ELSE z

\* C26 as stated: in a Returning iteration whose guard holds the return-aim
\* and the commanded altitude are both multiplied by the rate; otherwise the
\* decay step changes neither.
C26_BothDecayGeometrically ==
    [][trace'.returning =>
           IF DecayGuard
           THEN /\ cyw'.back_Z_aim = FMul(cyw.back_Z_aim, cfg.return_degress_rate)
                /\ cyw'.setout_Z = Snapped(FMul(cyw.setout_Z, cfg.return_degress_rate))
           ELSE /\ cyw'.back_Z_aim = cyw.back_Z_aim
                /\ cyw'.setout_Z = Snapped(cyw.setout_Z)]_vars

\* C26: in a Returning iteration whose guard holds the commanded altitude is
\* multiplied by the rate and the return-aim becomes the current altitude
\* times the rate; otherwise the decay step changes neither.  The commanded
\* altitude decays at most once per iteration.
C26_ReturnStep ==
    [][trace'.returning =>
           IF DecayGuard
           THEN /\ cyw'.back_Z_aim = FMul(FNeg(pos_current'.z), cfg.return_degress_rate)
                /\ cyw'.setout_Z = Snapped(FMul(cyw.setout_Z, cfg.return_degress_rate))
           ELSE /\ cyw'.back_Z_aim = cyw.back_Z_aim
                /\ cyw'.setout_Z = Snapped(cyw.setout_Z)]_vars

\* a Returning iteration at 1.2 m with the rate 0.5 halved the commanded
\* altitude from 2 m to 1 m and set the return-aim to 0.6 m
C26_DecayedAtAltitude ==
    /\ trace.returning /\ cfg.return_degress_rate = 50
    /\ pos_current.z = -120
    /\ trace.prev_Z = Mission1Heights[3] /\ cyw.setout_Z = 100
    /\ cyw.back_Z_aim = 60

\* C27 as stated: get_landing_gear_state returns GEAR_UP only if at that call
\* the vehicle is not land-detected, the gear switch is ON, and an earlier
\* call made after the last call with the vehicle land-detected saw the
\* switch OFF; every call with the vehicle land-detected returns GEAR_DOWN.
C27_UpOnlyAfterOffInAir ==
    [][trace'.gear_called =>
           /\ (trace'.gear_out = GEAR_UP) =>
                  (~landed' /\ manual_control_sp'.gear_switch = "ON" /\ hist.off_after_land)
           /\ landed' => (trace'.gear_out = GEAR_DOWN)]_vars

\* C27: get_landing_gear_state returns GEAR_UP only if at that call the
\* vehicle is not land-detected, the gear switch is ON, and an earlier call
\* saw the switch OFF with no call with the vehicle land-detected after it
\* (the call that saw it OFF may itself be one with the vehicle
\* land-detected); every call with the vehicle land-detected returns
\* GEAR_DOWN.
C27_UpOnlyAfterOff ==
    [][trace'.gear_called =>
           /\ (trace'.gear_out = GEAR_UP) =>
                  (~landed' /\ manual_control_sp'.gear_switch = "ON" /\ hist.off_since_land)
           /\ landed' => (trace'.gear_out = GEAR_DOWN)]_vars

\* the gear went up in the air after the switch had been OFF on the ground
\* and nowhere else
C27_UpAfterOffOnGround ==
    /\ trace.gear_called /\ trace.gear_out = GEAR_UP
    /\ ~landed /\ hist.off_since_land /\ ~hist.off_after_land

\* C28: Returning is absorbing. Once return_back_to_0m_able is set, every
\* later step keeps it set, keeps the mission selector at 0, leaves
\* start_return_back_runt as latched, and executes no branch of Mission
\* Content (no stand-still, no Holding, no second entry), whatever follows:
\* disarm, re-arm, run_t starting again from 0.
C28_ReturningAbsorbing ==
    [][cyw.return_back_to_0m_able =>
           /\ cyw'.return_back_to_0m_able
           /\ cyw'.modern_control_mission_select = 0
           /\ cyw'.start_return_back_runt = cyw.start_return_back_runt
           /\ trace'.phase = "none" /\ trace'.mission = 0]_vars

\* after Returning was entered the vehicle was disarmed and armed again, and
\* the sequencer runs with run_t back in the stand-still interval of the
\* mission flown
C28_RearmedWhileReturning ==
    /\ cyw.return_back_to_0m_able /\ trace.block /\ trace.armed /\ trace.returning
    /\ cyw.run_t < cyw.ms1_t[1]
    /\ cyw.run_t < cyw.start_return_back_runt

\* C29: the selected gyro index is always a subscribed instance:
\* 1 <= _gyro_count <= MAX_GYRO_COUNT and _selected_gyro < _gyro_count in
\* every state, so the gyro subscription waited on and copied from is one
\* run() opened; the index changes only in an iteration that ran
\* sensor_correction_poll, and only to the reported instance, which is then
\* below _gyro_count.
C29_SelectedGyroSubscribed ==
    /\ [](/\ gyro_count >= 1 /\ gyro_count <= MAX_GYRO_COUNT
          /\ selected_gyro < gyro_count
          /\ <<"sensor_gyro", selected_gyro>> \in subs)
    /\ [][selected_gyro' # selected_gyro =>
              /\ trace'.gyro
              /\ selected_gyro' = sensor_correction'
              /\ sensor_correction' < gyro_count]_vars

\* a gyro other than instance 0 stays selected after an instance that is not
\* subscribed was reported
C29_InvalidInstanceRejected ==
    trace.gyro /\ selected_gyro > 0 /\ sensor_correction >= gyro_count

\* C30: in an iteration the attitude controller (control_attitude, and
\* generate_attitude_setpoint before it) runs only if a new attitude estimate
\* was copied in that iteration and attitude control is enabled on a
\* rotary-wing vehicle; in an iteration without a new attitude estimate
\* neither runs, and the attitude setpoint is not polled: _v_att_sp keeps its
\* value whatever was published.
C30_AttitudeControllerGated ==
    [][trace'.gyro =>
           /\ (trace'.att_ctrl \/ trace'.gear_called) =>
                  /\ trace'.att_new
                  /\ v_control_mode'.flag_control_attitude_enabled
                  /\ vehicle_status'.is_rotary_wing
           /\ ~trace'.att_new =>
                  /\ ~trace'.att_ctrl /\ ~trace'.gear_called /\ ~trace'.asp_polled
                  /\ v_att_sp' = v_att_sp]_vars

\* attitude control was enabled on a rotary-wing vehicle and a setpoint had
\* been copied before, and an iteration without a new attitude estimate ran
\* no attitude controller
C30_SkippedWithoutEstimate ==
    /\ trace.gyro /\ ~trace.att_new /\ ~trace.att_ctrl
    /\ v_control_mode.flag_control_attitude_enabled /\ vehicle_status.is_rotary_wing
    /\ v_att_sp # Zero3

\* the value publish_actuator_controls stores in a primary channel before the
\* battery compensation
Stored(v) == IF IsFinite(v) THEN v ELSE 0

\* C31: battery compensation. In every actuator vector published, each of
\* control[0..3] is the stored value times the battery scale exactly when
\* compensation is enabled and the scale is > 0, and the stored value itself
\* when compensation is disabled or the scale is not > 0; control[7] is the
\* landing-gear value, never scaled.
C31_BatteryCompensation ==
    [][\A k \in 1..Len(emitted') :
           LET e  == emitted'[k]
               on == bat_scale_en /\ e.scale # NaN /\ e.scale > 0
           IN  /\ \A i \in 1..4 :
                      e.control[i] = IF on THEN FMul(Stored(e.computed[i]), e.scale)
                                     ELSE Stored(e.computed[i])
               /\ e.gear = IF e.path = "rates" THEN landing_gear ELSE landing_gear']_vars

\* a vector was published whose thrust channel is a non-zero demand changed
\* by the compensation, with the landing gear commanded up
C31_ThrustScaled ==
    \E k \in 1..Len(emitted) :
        /\ IsFinite(emitted[k].computed[4]) /\ emitted[k].computed[4] # 0
        /\ emitted[k].control[4] # emitted[k].computed[4]
        /\ emitted[k].scale = 60 /\ emitted[k].gear = GEAR_UP

\* C32: flight termination on a non-VTOL vehicle. In every iteration that
\* starts with flag_control_termination_enabled set (and ends with it set),
\* every actuator vector published (on a topic that has been chosen) has its
\* four primary channels zero, and the rate setpoint and the integrator are
\* zero when the iteration ends.
C32_TerminationZeroes ==
    [][(/\ Terminates(v_control_mode, vehicle_status)
        /\ Terminates(v_control_mode', vehicle_status')
        /\ trace'.gyro)
       => /\ \A k \in 1..Len(emitted') :
                 emitted'[k].topic # "unset" => emitted'[k].control = Zero4
          /\ rates_sp' = Zero3
          /\ rates_int' = Zero3]_vars

\* C33: actuator output topic selection. No actuator vector is published
\* while _actuators_id is unset, whatever the arrival order of control-mode
\* and vehicle-status messages; and once the id has been chosen it never
\* changes, whatever is_vtol later status updates report.
C33_TopicChosenBeforePublishing ==
    /\ [](\A k \in 1..Len(emitted) : emitted[k].topic # "unset")
    /\ [][actuators_id # "unset" => actuators_id' = actuators_id]_vars

\* C34: the state-feedback demand is memoryless in the state vector. The
\* demand u computed in an iteration is ss_r - ss_k * x with x made of that
\* iteration's measurements (altitude, attitude angles, vertical rate, body
\* rates): the forward-Euler state the previous iteration left in ss_x has
\* no influence, so equal reference and equal measurements give equal u
\* after any history.
C34_DemandMemoryless ==
    (trace.block /\ cyw.mordern_control_able)
        => cyw.ss_u_actual = Demand(cyw.ss_r, trace.x_meas)

\* the integration has left a state that differs from the measurements it
\* started from, and the demand of that iteration is finite
C34_IntegratedStateDiffers ==
    /\ trace.block /\ cyw.mordern_control_able
    /\ cyw.ss_x # <<trace.x_meas[1], trace.x_meas[2], trace.x_meas[3], trace.x_meas[4]>>
    /\ \A i \in 1..4 : IsFinite(cyw.ss_u_actual[i])

\* C35: position subscription balance. Every call of control_attitude_rates
\* that subscribes to vehicle_local_position unsubscribes it before it
\* returns, also the call in which the safety timeout clears cywmc_able; so
\* between calls no position subscription is open, after any number of
\* iterations.
C35_PositionSubscriptionBalanced ==
    \A s \in subs : s[1] # "vehicle_local_position"

\* the call in which the safety timeout cleared cywmc_able has returned
C35_TimeoutCallReturned ==
    trace.block /\ ~cyw.cywmc_able /\ hist.timed_out /\ subs = OpenedByRun(gyro_count)

====
